---- MODULE Spec2Model ----
(***************************************************************************)
(* Verification model of the super-download engine core.                   *)
(*                                                                         *)
(* Part I  (Spec):  one Task with its orchestration jobs, its Blocks, the  *)
(*                  per-block HttpEngine flags, the destination file and   *)
(*                  the metadata file, under every interleaving of the     *)
(*                  caller's start/pause/resume/cancel with pool workers.  *)
(* Part II (SpecQ): the TaskQueue and the DownloadManager dispatch over    *)
(*                  several Tasks; FairSpecQ adds the pool's scheduling.   *)
(* SpecRecovered:   a Task built by Task::fromMeta from a record on disk,  *)
(*                  then resumed against a server that may omit validators.*)
(* SpecRetry:       the Task of Part I under repeated network failures.    *)
(* Part III:        the components on their own: SpecEngine (HttpEngine's  *)
(*                  retry loops and cancel flag).                          *)
(***************************************************************************)
EXTENDS Integers, Sequences, FiniteSets, TLC

\* ------------------------------------------------------------------------
\* Program constants
\* ------------------------------------------------------------------------
kMaxAutoRetries == 3
max_retries == 3
SmallFileLimit == 2097152
max_concurrent_tasks == 3
MaxConcurrentLimit == 10
FirstTaskId == 1

\* ------------------------------------------------------------------------
\* Bounds of the exploration
\* ------------------------------------------------------------------------
MaxBlocks == 2      \* max_blocks_ of the task (config value, clamped to 1..32)
MaxCalls == 3       \* pause()/resume()/cancel() calls made by the caller
MaxNetFail == 1     \* network failures the environment injects
MaxEtagChange == 1  \* times the server replaces the file (new entity tag)
MaxEvents == 3      \* caller's calls, failures and replacements altogether
MaxTasks == 3       \* tasks the manager creates (added or recovered)
MaxCap == 2         \* largest queue cap configured
MaxUrls == 2        \* distinct URLs the user asks for
MaxQCalls == 2      \* pause/resume/cancel/remove/set-cap calls on the manager
MaxQFail == 1       \* failing orchestration jobs of the queued tasks

\* The server's file: the smallest size the splitter cuts into several blocks,
\* delivered to the data callback in pieces of a quarter of that size.
FileSize == SmallFileLimit
ChunkSize == SmallFileLimit \div 4

\* Destination names the task can end up with: resolveConflict appends " (k)"
\* when the name is taken, and every further name needs a further resume().
Paths == 0..MaxEvents

NoMeta == [present |-> FALSE]
NoFile == [exists |-> FALSE, size |-> 0, written |-> {}]
NoProgress == -1
NoEtag == 0   \* the empty string of etag_ / FileInfo::etag
NoLastModified == 0   \* the empty string of last_modified_ / FileInfo::last_modified

VARIABLES
    state_,             \* Task::state_
    auto_retry_count_,  \* Task::auto_retry_count_
    error_message_,     \* Task::error_message_  ("" or a description)
    file_size_,         \* Task::file_size_
    etag_,              \* Task::etag_ (NoEtag or the tag of a server version)
    last_modified_,     \* Task::last_modified_ (NoLastModified or a timestamp)
    file_path_,         \* Task::file_path_ (meta_path_ is file_path_ + ".meta")
    blocks_,            \* Task::blocks_ / engines_: sequence of object ids
    heap,               \* Block + HttpEngine objects ever allocated
    progress_,          \* ProgressMonitor::downloaded_bytes_ (NoProgress: null)
    jobs,               \* orchestration work items submitted to the pool
    workers,            \* block work items submitted to the pool
    files,              \* the save directory: destination file per name
    metas,              \* the save directory: metadata file per name
    calls,              \* caller's API calls so far
    netFails,           \* injected network failures so far
    etagChanges,        \* server-side file replacements so far (entity tag = 1 + this)
    limit,              \* how many calls/failures/replacements a run explores
    hist                \* observations for the properties

vars == <<state_, auto_retry_count_, error_message_, file_size_, etag_, last_modified_,
          file_path_, blocks_, heap, progress_, jobs, workers, files, metas,
          calls, netFails, etagChanges, limit, hist>>

\* Part II: the queue and the manager
VARIABLES
    tasks_,             \* TaskQueue::tasks_: handles in queue order
    active_count_,      \* TaskQueue::active_count_
    max_concurrent_,    \* TaskQueue::max_concurrent_
    tasks_by_id_,       \* DownloadManager::tasks_by_id_: the keys of the map
    next_task_id_,      \* DownloadManager::next_task_id_
    task,               \* the Task objects: task_id_, url_, state_, auto_retry_count_
    qjobs,              \* work items of the tasks in the pool: how many of
                        \* each task, kind and position
    pending,            \* on_state_change_ callbacks entered, per task_id_,
                        \* that have not taken the queue's mutex yet
    qcalls,             \* calls on the manager so far
    qfails,             \* failed jobs so far
    hq                  \* observations for the properties

qvars == <<tasks_, active_count_, max_concurrent_, tasks_by_id_, next_task_id_,
           task, qjobs, pending, qcalls, qfails, hq>>

\* Part III: the components on their own. One HttpEngine and the call made on it
VARIABLES
    cancelled,          \* HttpEngine::Impl::cancelled
    request,            \* the fetchFileInfo/download call: loop position, result
    seen                \* observations for the properties

evars == <<cancelled, request, seen>>

\* One TokenBucket, the threads inside acquire(), and the clock
VARIABLES
    rate_,              \* TokenBucket::rate_ (0: unlimited)
    bucket_tokens_,     \* TokenBucket::tokens_
    max_tokens_,        \* TokenBucket::max_tokens_
    elapsed,            \* steady_clock::now() - last_refill_, in clock units
    cancelled_,         \* TokenBucket::cancelled_
    acq,                \* per thread: position in acquire(), argument, result
    granted             \* observations for the properties

bvars == <<rate_, bucket_tokens_, max_tokens_, elapsed, cancelled_, acq, granted>>

\* One ThreadPool, its workers, the items submitted and the owner's destructor
VARIABLES
    stopped_,           \* ThreadPool::stopped_
    pool_tasks_,        \* ThreadPool::tasks_, the queue of items
    pool_workers_,      \* ThreadPool::workers_: each worker's position and item
    notified,           \* workers a notify has reached and that have not run yet
    item,               \* per item: accepted?, failing?, its future, times run
    dtor,               \* position of ~ThreadPool
    ran                 \* observations: who ran what, in order

pvars == <<stopped_, pool_tasks_, pool_workers_, notified, item, dtor, ran>>

\* A call on a component from outside: what was asked and what came back
VARIABLES
    arg,                \* the operation called and its arguments
    returned            \* its return value

fvars == <<arg, returned>>

\* The metadata file that MetaFile::save writes and MetaFile::load reads
VARIABLES
    meta_file           \* its text, or that there is no such file

mvars == <<meta_file>>

\* One ProgressMonitor and the threads calling it
VARIABLES
    downloaded_bytes_,  \* ProgressMonitor::downloaded_bytes_
    monitor_mutex,      \* the thread holding ProgressMonitor::mutex_, or 0
    caller,             \* per thread: where it is in addBytes, and with which delta
    passed,             \* the sum of the positive deltas of the calls that returned
    snapshots           \* the last two results of snapshot().downloaded_bytes

gvars == <<downloaded_bytes_, monitor_mutex, caller, passed, snapshots>>

\* The mutexes of the manager, the queue, the tasks, their progress monitors
\* and the pool, and the threads that take them
VARIABLES
    holder,             \* per mutex: the thread that holds it, or 0
    program             \* per thread: the lock and unlock operations that the
                        \* call it is in has still to make, in order

lvars == <<holder, program>>

cvars == <<evars, bvars, pvars, fvars, mvars, gvars, lvars>>

\* ------------------------------------------------------------------------
\* Helpers
\* ------------------------------------------------------------------------
Min(a, b) == IF a < b THEN a ELSE b
Max(a, b) == IF a > b THEN a ELSE b

Range(s) == {s[i] : i \in 1..Len(s)}

RECURSIVE SumSeq(_)
SumSeq(s) == IF s = <<>> THEN 0 ELSE Head(s) + SumSeq(Tail(s))

\* splitBlocks whose last block is as long as the others
splitBlocksDropsRemainder(fsize, num_blocks, supports_range) ==
    IF ~supports_range \/ fsize < SmallFileLimit
    THEN << [block_id |-> 0, range_start |-> 0, range_end |-> fsize - 1,
             downloaded |-> 0, completed |-> FALSE] >>
    ELSE LET actual_blocks == Min(num_blocks, fsize)
             block_size == fsize \div actual_blocks
         IN [i \in 1..actual_blocks |->
                [block_id |-> i - 1,
                 range_start |-> (i - 1) * block_size,
                 range_end |-> i * block_size - 1,
                 downloaded |-> 0,
                 completed |-> FALSE]]

\* block_splitter.cpp, splitBlocks (file_size > 0, 1 <= num_blocks <= 32)
splitBlocks(fsize, num_blocks, supports_range) ==
    IF ~supports_range \/ fsize < SmallFileLimit
    THEN << [block_id |-> 0, range_start |-> 0, range_end |-> fsize - 1,
             downloaded |-> 0, completed |-> FALSE] >>
    ELSE LET actual_blocks == Min(num_blocks, fsize)
             block_size == fsize \div actual_blocks
         IN [i \in 1..actual_blocks |->
                [block_id |-> i - 1,
                 range_start |-> (i - 1) * block_size,
                 range_end |-> IF i = actual_blocks
                               THEN fsize - 1
                               ELSE i * block_size - 1,
                 downloaded |-> 0,
                 completed |-> FALSE]]

\* Block constructor together with the HttpEngine made for it.
NewBlock(bi, path) ==
    [info |-> bi, path |-> path, paused |-> FALSE, cancelled |-> FALSE,
     freed |-> FALSE]

\* Block::getInfo
getInfo(o) == heap[o].info

\* Block::pause on every block of a collection: paused_ and engine cancel flag
PauseAll(h, objs) ==
    [o \in DOMAIN h |->
        IF o \in objs THEN [h[o] EXCEPT !.paused = TRUE, !.cancelled = TRUE]
        ELSE h[o]]

\* Destroying the Block/HttpEngine objects of a cleared collection
FreeAll(h, objs) ==
    [o \in DOMAIN h |-> IF o \in objs THEN [h[o] EXCEPT !.freed = TRUE] ELSE h[o]]

\* A worker holds the destination file open from Block::execute's CreateFile
\* until it leaves execute.
HasOpenHandle(w) == w.pc \in {"attempt", "recv", "acquire", "complete"}
FileInUse(p) ==
    \E i \in 1..Len(workers) : HasOpenHandle(workers[i]) /\ heap[workers[i].obj].path = p

\* ProgressMonitor::addBytes
addBytes(p, n) == IF p = NoProgress \/ n <= 0 THEN p ELSE p + n

\* Task::saveMeta: the record written to meta_path_
MetaOf(fs, et, lm, objs) ==
    [present |-> TRUE, file_size |-> fs, etag |-> et, last_modified |-> lm,
     blocks |-> [i \in 1..Len(objs) |-> getInfo(objs[i])]]

\* Task::resolveConflict: the first free name starting from the current one
resolveConflict(p) ==
    IF ~files[p].exists THEN p
    ELSE IF \E q \in Paths : q > p /\ ~files[q].exists
         THEN CHOOSE q \in Paths : /\ q > p /\ ~files[q].exists
                                  /\ \A r \in Paths : (r > p /\ r < q) => files[r].exists
         ELSE p

\* The environment may still act: a call, a failure or a file replacement
Events == calls + netFails + etagChanges
MayCall == calls < limit.calls /\ Events < limit.events
MayFail == netFails < limit.net /\ Events < limit.events
MayChange(n) == n = 0 \/ (etagChanges < limit.etag /\ Events < limit.events)

\* ProgressMonitor + writes: an interval joins the one that ends right before it
AddWritten(written, lo, hi) ==
    IF \E iv \in written : iv[2] + 1 = lo
    THEN LET iv == CHOOSE x \in written : x[2] + 1 = lo
         IN (written \ {iv}) \cup {<<iv[1], hi>>}
    ELSE written \cup {<<lo, hi>>}

\* Work items in the pool, in submission order; an item that has returned is
\* dropped from the sequence.
NewJob(kind, pc) == [kind |-> kind, pc |-> pc]

NewWorker(o) ==
    [obj |-> o, pc |-> "queued", cur |-> 0, req |-> 0, sent |-> 0,
     attempt |-> 0, chunk |-> 0, final |-> FALSE, restored |-> FALSE]

\* The work item of a block that Task::resume recreated from the loaded record
RestoredWorker(o) == [NewWorker(o) EXCEPT !.restored = TRUE]

Drop(s, k) == [i \in 1..(Len(s) - 1) |-> IF i < k THEN s[i] ELSE s[i + 1]]

\* ------------------------------------------------------------------------
\* Init: a freshly constructed Task (Queued, nothing on disk)
\* ------------------------------------------------------------------------
NewTask ==
    /\ state_ = "Queued"
    /\ auto_retry_count_ = 0
    /\ error_message_ = ""
    /\ file_size_ = 0
    /\ etag_ = NoEtag
    /\ last_modified_ = NoLastModified
    /\ file_path_ = 0
    /\ blocks_ = <<>>
    /\ heap = <<>>
    /\ progress_ = NoProgress
    /\ jobs = <<>>
    /\ workers = <<>>
    /\ files = [p \in Paths |-> NoFile]
    /\ metas = [p \in Paths |-> NoMeta]
    /\ calls = 0
    /\ netFails = 0
    /\ etagChanges = 0
    /\ hist = [cancelReturned |-> FALSE, blockFailed |-> FALSE,
              callbacks |-> 0, reported |-> "None", completions |-> 0,
              resumedFrom |-> "None"]

\* The task and what its run explores: the caller's calls, the failures and
\* the file replacements, and the validator headers the server sends
TaskInit ==
    /\ NewTask
    /\ limit = [events |-> MaxEvents, calls |-> MaxCalls, net |-> MaxNetFail,
                etag |-> MaxEtagChange, etagHeader |-> TRUE,
                lastModifiedHeader |-> TRUE]

\* TaskQueue and DownloadManager constructors: the cap is clamped to 1..10
NoTask == [id |-> 0, url |-> 0, state |-> "None", retries |-> 0]

QueueInit(cap) ==
    /\ tasks_ = <<>>
    /\ active_count_ = 0
    /\ max_concurrent_ = Max(1, Min(cap, MaxConcurrentLimit))
    /\ tasks_by_id_ = {}
    /\ next_task_id_ = FirstTaskId
    /\ task = [h \in 1..MaxTasks |-> NoTask]
    /\ qjobs = [j \in (1..MaxTasks) \X {"start", "resume"} \X {"run", "sleep"} |-> 0]
    /\ pending = [i \in 0..MaxTasks |-> 0]
    /\ qcalls = 0
    /\ qfails = 0
    /\ hq = [capLowered |-> FALSE, owed |-> FALSE,
             inc |-> [h \in 1..MaxTasks |-> 0], dec |-> [h \in 1..MaxTasks |-> 0],
             paused |-> {}]

\* A constructed HttpEngine: flag clear, no call made yet
NoError == [what |-> "", retryable |-> FALSE]

EngineInit ==
    /\ cancelled = FALSE
    /\ request = [op |-> "none", pc |-> "none", method |-> 0, attempt |-> 0,
                  last_error |-> NoError]
    /\ seen = [cancelCalled |-> FALSE, cancels |-> 0, cancelAt |-> "never",
               started |-> 0, startedAfterCancel |-> FALSE,
               answer |-> [res |-> "none", http_code |-> 0]]

\* Threads that call acquire()
Threads == {1, 2}

NoResult == -1

\* TokenBucket::TokenBucket(rate): a full bucket
BucketInit(rate) ==
    /\ rate_ = rate
    /\ bucket_tokens_ = rate
    /\ max_tokens_ = rate
    /\ elapsed = 0
    /\ cancelled_ = FALSE
    /\ acq = [t \in Threads |-> [pc |-> "idle", tokens |-> 0, result |-> NoResult]]
    /\ granted = [window |-> "unset", tokens |-> 0, ticks |-> 0,
                  rateSet |-> FALSE, calls |-> 0, sets |-> 0]

\* Worker threads of the pool and the items its callers submit
PoolWorkers == {1, 2}

MaxItems == 3

Items == 1..MaxItems

\* ThreadPool::ThreadPool: the workers are about to take the lock
PoolInit ==
    /\ stopped_ = FALSE
    /\ pool_tasks_ = <<>>
    /\ pool_workers_ = [w \in PoolWorkers |-> [pc |-> "ready", task |-> 0]]
    /\ notified = {}
    /\ item = [i \in Items |-> [state |-> "new", throws |-> FALSE,
                                 future |-> "none", runs |-> 0]]
    /\ dtor = "none"
    /\ ran = [order |-> <<>>, queuedAtStop |-> {}]

\* No call made yet
CallInit ==
    /\ arg = [op |-> "none", id |-> 0, size |-> 0, n |-> 0]
    /\ returned = FALSE

\* No metadata file written yet
NoSuchFile == [exists |-> FALSE]

MetaFileInit == meta_file = NoSuchFile

\* ProgressMonitor's constructor, and nobody calling
MonitorThreads == 1..2

MonitorInit ==
    /\ downloaded_bytes_ = 0
    /\ monitor_mutex = 0
    /\ caller = [t \in MonitorThreads |-> [pc |-> "idle", bytes |-> 0, local |-> 0, calls |-> 0]]
    /\ passed = 0
    /\ snapshots = [calls |-> 0, last |-> 0, previous |-> 0]

\* The mutexes: DownloadManager::mutex_, TaskQueue::mutex_, ThreadPool::mutex_,
\* and Task::mutex_ and ProgressMonitor::mutex_ of every task
LockTasks == 1..2
Mutexes ==
    {<<"Manager", 0>>, <<"Queue", 0>>, <<"Pool", 0>>}
        \cup ({"Task", "Progress"} \X LockTasks)

\* Two threads calling the manager and one pool worker
CallerThreads == {1, 2}
WorkerThreads == {3}
LockThreads == CallerThreads \cup WorkerThreads

\* Every mutex free, every thread outside any call
LockInit ==
    /\ holder = [m \in Mutexes |-> 0]
    /\ program = [t \in LockThreads |-> <<>>]

\* The components as constructed
Idle == EngineInit /\ BucketInit(1) /\ PoolInit /\ CallInit /\ MetaFileInit /\ MonitorInit /\ LockInit

Init == TaskInit /\ QueueInit(max_concurrent_tasks) /\ Idle

\* ------------------------------------------------------------------------
\* Caller-side operations of Task
\* ------------------------------------------------------------------------

\* Observation: a run of the task begins (start() or resume() switched it to
\* Downloading); Task::checkCompletion is entered once more in this run
runBegins(h) == [h EXCEPT !.completions = 0]
completionRuns(h) == [h EXCEPT !.completions = @ + 1]

\* Task::setState: the state is stored by the caller's action; the callback
\* on_state_change_(task_id_, new_state) runs only if the state that
\* setState loads differs from the new one. h counts the invocations.
setState(h, old_state, new_state) ==
    IF old_state # new_state
    THEN [h EXCEPT !.callbacks = @ + 1, !.reported = new_state]
    ELSE h

\* Task::start: CAS Queued -> Downloading, submit the orchestration job
start ==
    /\ state_ = "Queued"
    /\ state_' = "Downloading"
    /\ jobs' = Append(jobs, NewJob("start", "fprobe"))
    /\ UNCHANGED <<auto_retry_count_, error_message_, file_size_, etag_, last_modified_,
                   file_path_, blocks_, heap, progress_, workers, files, metas,
                   calls, netFails, etagChanges, limit>>
    /\ hist' = setState(runBegins(hist), "Downloading", "Downloading")
    /\ UNCHANGED <<qvars, cvars>>

\* pause() without the compare-and-swap on the state
pauseAnyState ==
    /\ MayCall
    /\ state_' = "Paused"
    /\ heap' = PauseAll(heap, Range(blocks_))
    /\ metas' = [metas EXCEPT ![file_path_] =
                    MetaOf(file_size_, etag_, last_modified_, blocks_)]
    /\ calls' = calls + 1
    /\ UNCHANGED <<auto_retry_count_, error_message_, file_size_, etag_, last_modified_,
                   file_path_, blocks_, progress_, jobs, workers, files,
                   netFails, etagChanges, limit>>
    /\ hist' = setState(hist, "Paused", "Paused")
    /\ UNCHANGED <<qvars, cvars>>

\* Task::pause: CAS Downloading -> Paused, pause every block, saveMeta
pause ==
    /\ MayCall
    /\ state_ = "Downloading"
    /\ state_' = "Paused"
    /\ heap' = PauseAll(heap, Range(blocks_))
    /\ metas' = [metas EXCEPT ![file_path_] = MetaOf(file_size_, etag_, last_modified_, blocks_)]
    /\ calls' = calls + 1
    /\ UNCHANGED <<auto_retry_count_, error_message_, file_size_, etag_, last_modified_,
                   file_path_, blocks_, progress_, jobs, workers, files,
                   netFails, etagChanges, limit>>
    /\ hist' = setState(hist, "Paused", "Paused")
    /\ UNCHANGED <<qvars, cvars>>

\* Task::resume: CAS Paused -> Downloading, else Failed -> Downloading
resume ==
    /\ MayCall
    /\ state_ \in {"Paused", "Failed"}
    /\ state_' = "Downloading"
    /\ jobs' = Append(jobs, NewJob("resume", "rprobe"))
    /\ calls' = calls + 1
    /\ UNCHANGED <<auto_retry_count_, error_message_, file_size_, etag_, last_modified_,
                   file_path_, blocks_, heap, progress_, workers, files, metas,
                   netFails, etagChanges, limit>>
    /\ hist' = setState(runBegins([hist EXCEPT !.resumedFrom = state_]),
                        "Downloading", "Downloading")
    /\ UNCHANGED <<qvars, cvars>>

\* fs::remove(file_path_) inside Task::cancel: fails (and is swallowed) while
\* a block worker still holds the file open without delete sharing.
RemoveFile(fl, p) == IF FileInUse(p) THEN fl ELSE [fl EXCEPT ![p] = NoFile]

\* Task::cancel: store Cancelled, pause every block, delete file and metadata
cancel ==
    /\ MayCall
    /\ state_' = "Cancelled"
    /\ heap' = PauseAll(heap, Range(blocks_))
    /\ files' = RemoveFile(files, file_path_)
    /\ metas' = [metas EXCEPT ![file_path_] = NoMeta]
    /\ calls' = calls + 1
    /\ hist' = setState([hist EXCEPT !.cancelReturned = TRUE],
                      "Cancelled", "Cancelled")
    /\ UNCHANGED <<auto_retry_count_, error_message_, file_size_, etag_, last_modified_,
                   file_path_, blocks_, progress_, jobs, workers,
                   netFails, etagChanges, limit>>
    /\ UNCHANGED <<qvars, cvars>>

\* ------------------------------------------------------------------------
\* Orchestration jobs on pool workers (Task::start / Task::resume lambdas)
\* ------------------------------------------------------------------------
SetJob(j, pc) == [jobs EXCEPT ![j].pc = pc]

\* FileInfo::etag of a probe answered by the server's current file version;
\* empty when the server sends no ETag header
ServerEtag(changes) == IF limit.etagHeader THEN changes + 1 ELSE NoEtag

\* FileInfo::last_modified of that answer; empty without a Last-Modified header
ServerLastModified(changes) ==
    IF limit.lastModifiedHeader THEN changes + 1 ELSE NoLastModified

\* The server-change test with the entity tag alone
server_changed_etag_only(etag, last_modified, info) ==
    etag # NoEtag /\ info.etag # NoEtag /\ etag # info.etag

\* Task::resume: the server-change test on the answer of the new probe
server_changed(etag, last_modified, info) ==
    \/ etag # NoEtag /\ info.etag # NoEtag /\ etag # info.etag
    \/ /\ last_modified # NoLastModified
       /\ info.last_modified # NoLastModified
       /\ last_modified # info.last_modified

\* HttpError::what() of a probe failure: the text names the curl code or HTTP
\* status, which decide HttpError::isRetryable()
what(retryable) == IF retryable THEN "timeout" ELSE "HTTP 404"

\* The catch block with the auto-retry taken for every HttpError
ProbeFailAlwaysRetries ==
  \E j \in 1..Len(jobs), retryable \in BOOLEAN :
    /\ jobs[j].pc \in {"fprobe", "rprobe"}
    /\ MayFail
    /\ netFails' = netFails + 1
    /\ error_message_' = what(retryable)
    /\ IF jobs[j].kind = "start" /\ auto_retry_count_ < kMaxAutoRetries
       THEN /\ auto_retry_count_' = auto_retry_count_ + 1
            /\ state_' = "Queued"
            /\ jobs' = SetJob(j, "sleep")
            /\ UNCHANGED hist
       ELSE /\ state_' = "Failed"
            /\ jobs' = Drop(jobs, j)
            /\ UNCHANGED auto_retry_count_
            /\ hist' = setState(hist, state_, "Failed")
    /\ UNCHANGED <<file_size_, etag_, last_modified_, file_path_, blocks_, heap, progress_,
                   workers, files, metas, calls, etagChanges, limit>>
    /\ UNCHANGED <<qvars, cvars>>

\* HttpEngine::fetchFileInfo throws (after its own retries, or at once when the
\* error is not retryable); the catch blocks of the start and resume lambdas.
ProbeFail ==
  \E j \in 1..Len(jobs), retryable \in BOOLEAN :
    /\ jobs[j].pc \in {"fprobe", "rprobe"}
    /\ MayFail
    /\ netFails' = netFails + 1
    /\ error_message_' = what(retryable)
    /\ IF jobs[j].kind = "start" /\ retryable /\ auto_retry_count_ < kMaxAutoRetries
       THEN /\ auto_retry_count_' = auto_retry_count_ + 1
            /\ state_' = "Queued"
            /\ jobs' = SetJob(j, "sleep")
            /\ UNCHANGED hist
       ELSE /\ state_' = "Failed"
            /\ jobs' = Drop(jobs, j)
            /\ UNCHANGED auto_retry_count_
            /\ hist' = setState(hist, state_, "Failed")
    /\ UNCHANGED <<file_size_, etag_, last_modified_, file_path_, blocks_, heap, progress_,
                   workers, files, metas, calls, etagChanges, limit>>
    /\ UNCHANGED <<qvars, cvars>>

\* The auto-retry branch after its sleep: the nested start() call
RetryStart ==
  \E j \in 1..Len(jobs) :
    /\ jobs[j].pc = "sleep"
    /\ IF state_ = "Queued"
       THEN /\ state_' = "Downloading"
            /\ jobs' = Append(Drop(jobs, j), NewJob("start", "fprobe"))
            /\ hist' = setState(runBegins(hist), "Downloading", "Downloading")
       ELSE /\ jobs' = Drop(jobs, j)
            /\ UNCHANGED <<state_, hist>>
    /\ UNCHANGED <<auto_retry_count_, error_message_, file_size_, etag_, last_modified_,
                   file_path_, blocks_, heap, progress_, workers, files, metas,
                   calls, netFails, etagChanges, limit>>
    /\ UNCHANGED <<qvars, cvars>>

\* Task::fetchFileInfoAndStart up to the name resolution: the probe succeeded,
\* possibly after the server replaced the file (changed = 1)
FetchInfoOk ==
  \E j \in 1..Len(jobs), changed \in {0, 1} :
    /\ jobs[j].pc = "fprobe"
    /\ MayChange(changed)
    /\ etagChanges' = etagChanges + changed
    /\ file_size_' = FileSize
    /\ etag_' = ServerEtag(etagChanges')
    /\ last_modified_' = ServerLastModified(etagChanges')
    /\ file_path_' = resolveConflict(file_path_)
    /\ jobs' = SetJob(j, "alloc")
    /\ UNCHANGED <<state_, auto_retry_count_, error_message_, blocks_, heap,
                   progress_, workers, files, metas, calls, netFails, limit, hist>>
    /\ UNCHANGED <<qvars, cvars>>

\* Task::allocateFile (CREATE_ALWAYS: an existing file is truncated), then a
\* new ProgressMonitor
allocateFile ==
  \E j \in 1..Len(jobs) :
    /\ jobs[j].pc = "alloc"
    /\ files' = [files EXCEPT ![file_path_] =
                    [exists |-> TRUE, size |-> file_size_, written |-> {}]]
    /\ progress_' = 0
    /\ jobs' = SetJob(j, "create")
    /\ UNCHANGED <<state_, auto_retry_count_, error_message_, file_size_, etag_, last_modified_,
                   file_path_, blocks_, heap, workers, metas, calls,
                   netFails, etagChanges, limit, hist>>
    /\ UNCHANGED <<qvars, cvars>>

\* A destroyed object no work item points to any more is reduced to a stub
Stub == [info |-> [block_id |-> 0, range_start |-> 0, range_end |-> 0,
                   downloaded |-> 0, completed |-> FALSE],
         path |-> 0, paused |-> FALSE, cancelled |-> FALSE, freed |-> TRUE]
Collect(h, ws) ==
    [o \in DOMAIN h |->
        IF h[o].freed /\ \A i \in 1..Len(ws) : ws[i].obj # o THEN Stub ELSE h[o]]

\* blocks_/engines_ replaced by one new Block per BlockInfo of infos
Rebuilt(infos) ==
    FreeAll(heap, Range(blocks_))
        \o [i \in 1..Len(infos) |-> NewBlock(infos[i], file_path_)]

\* Task::createBlocks, Task::saveMeta, Task::submitBlocks at the end of
\* fetchFileInfoAndStart and of the server-changed branch of resume
createBlocks ==
  \E j \in 1..Len(jobs) :
    /\ jobs[j].pc = "create"
    /\ LET infos == splitBlocks(file_size_, MaxBlocks, TRUE)
           ids == [i \in 1..Len(infos) |-> Len(heap) + i]
       IN /\ heap' = Collect(Rebuilt(infos), workers)
          /\ blocks_' = ids
          /\ metas' = [metas EXCEPT ![file_path_] =
                [present |-> TRUE, file_size |-> file_size_, etag |-> etag_,
                 last_modified |-> last_modified_, blocks |-> infos]]
          /\ workers' = workers \o [i \in 1..Len(ids) |-> NewWorker(ids[i])]
    /\ jobs' = Drop(jobs, j)
    /\ UNCHANGED <<state_, auto_retry_count_, error_message_, file_size_, etag_, last_modified_,
                   file_path_, progress_, files, calls, netFails,
                   etagChanges, limit, hist>>
    /\ UNCHANGED <<qvars, cvars>>

\* Incomplete blocks of a loaded record, in order
RECURSIVE Incomplete(_)
Incomplete(bs) ==
    IF bs = <<>> THEN <<>>
    ELSE IF Head(bs).completed THEN Incomplete(Tail(bs))
         ELSE <<Head(bs)>> \o Incomplete(Tail(bs))

\* Task::resume lambda after its probe succeeded: server-change detection;
\* changed server -> discard blocks and take over size and validators;
\* unchanged -> MetaFile::load, and either start over (no record) or recreate
\* the incomplete blocks, seed a new ProgressMonitor and submit them
ResumeProbeOk ==
  \E j \in 1..Len(jobs), changed \in {0, 1} :
    /\ jobs[j].pc = "rprobe"
    /\ MayChange(changed)
    /\ etagChanges' = etagChanges + changed
    /\ LET info == [etag |-> ServerEtag(etagChanges'),
                    last_modified |-> ServerLastModified(etagChanges')]
           m == metas[file_path_]
       IN IF server_changed(etag_, last_modified_, info)
          THEN /\ heap' = Collect(FreeAll(heap, Range(blocks_)), workers)
               /\ blocks_' = <<>>
               /\ file_size_' = FileSize
               /\ etag_' = info.etag
               /\ last_modified_' = info.last_modified
               /\ jobs' = SetJob(j, "alloc")
               /\ UNCHANGED <<progress_, workers>>
          ELSE IF ~m.present
          THEN /\ jobs' = SetJob(j, "fprobe")
               /\ UNCHANGED <<heap, blocks_, file_size_, etag_, last_modified_, progress_, workers>>
          ELSE LET infos == Incomplete(m.blocks)
                   ids == [i \in 1..Len(infos) |-> Len(heap) + i]
                   already_downloaded ==
                       SumSeq([i \in 1..Len(m.blocks) |-> m.blocks[i].downloaded])
               IN /\ heap' = Collect(Rebuilt(infos), workers)
                  /\ blocks_' = ids
                  /\ progress_' = addBytes(0, already_downloaded)
                  /\ workers' = workers \o [i \in 1..Len(ids) |-> RestoredWorker(ids[i])]
                  /\ jobs' = Drop(jobs, j)
                  /\ UNCHANGED <<file_size_, etag_, last_modified_>>
    /\ UNCHANGED <<state_, auto_retry_count_, error_message_, file_path_,
                   files, metas, calls, netFails, limit, hist>>
    /\ UNCHANGED <<qvars, cvars>>

\* ------------------------------------------------------------------------
\* Block work items on pool workers (Block::execute inside submitBlocks' lambda)
\* ------------------------------------------------------------------------
Obj(w) == workers[w].obj
Blk(w) == heap[workers[w].obj]

\* Bytes the request of this execute() asks the server for
Need(w) == Blk(w).info.range_end - workers[w].req + 1

\* The work item returns (normally or by the swallowed exception)
Leave(w, h) ==
    /\ workers' = Drop(workers, w)
    /\ heap' = Collect(h, workers')

\* Observation: a block of the current collection of a Downloading task ends
\* with an error that no retry of the fetcher recovers
Failing(w) ==
    IF state_ = "Downloading" /\ Obj(w) \in Range(blocks_)
    THEN [hist EXCEPT !.blockFailed = TRUE] ELSE hist

\* Block::execute entry: completed check, paused_ = false, CreateFile
\* (OPEN_EXISTING), request range from range_start + downloaded; then the head
\* of HttpEngine::download's first attempt: cancellation check, Impl::reset
Execute ==
  \E w \in 1..Len(workers) :
    /\ workers[w].pc = "queued"
    /\ IF Blk(w).info.completed
       THEN Leave(w, heap)
       ELSE IF ~files[Blk(w).path].exists \/ Blk(w).cancelled
       THEN Leave(w, [heap EXCEPT ![Obj(w)].paused = FALSE])
       ELSE /\ heap' = [heap EXCEPT ![Obj(w)].paused = FALSE]
            /\ workers' = [workers EXCEPT ![w] = [@ EXCEPT
                    !.pc = "recv",
                    !.cur = Blk(w).info.range_start + Blk(w).info.downloaded,
                    !.req = Blk(w).info.range_start + Blk(w).info.downloaded]]
    /\ hist' = IF ~Blk(w).info.completed /\ ~files[Blk(w).path].exists
               THEN Failing(w) ELSE hist
    /\ UNCHANGED <<state_, auto_retry_count_, error_message_, file_size_, etag_, last_modified_,
                   file_path_, blocks_, progress_, jobs, files, metas,
                   calls, netFails, etagChanges, limit>>
    /\ UNCHANGED <<qvars, cvars>>

\* HttpEngine::download, head of a retry: backoff, cancellation check, then
\* Impl::reset clears the flag; the request uses the same range arguments
Attempt ==
  \E w \in 1..Len(workers) :
    /\ workers[w].pc = "attempt"
    /\ IF Blk(w).cancelled
       THEN Leave(w, heap)
       ELSE /\ heap' = [heap EXCEPT ![Obj(w)].cancelled = FALSE]
            /\ workers' = [workers EXCEPT ![w] = [@ EXCEPT !.pc = "recv", !.sent = 0]]
    /\ UNCHANGED <<state_, auto_retry_count_, error_message_, file_size_, etag_, last_modified_,
                   file_path_, blocks_, progress_, jobs, files, metas,
                   calls, netFails, etagChanges, limit, hist>>
    /\ UNCHANGED <<qvars, cvars>>

\* The transfer is aborted by the cancel flag (progressFunction or
\* downloadWriteCallback), or the server refuses an empty range (416):
\* download throws a non-retryable HttpError, swallowed by the work item
RecvAbort ==
  \E w \in 1..Len(workers) :
    /\ workers[w].pc = "recv"
    /\ Blk(w).cancelled \/ Need(w) <= 0
    /\ Leave(w, heap)
    /\ UNCHANGED <<state_, auto_retry_count_, error_message_, file_size_, etag_, last_modified_,
                   file_path_, blocks_, progress_, jobs, files, metas,
                   calls, netFails, etagChanges, limit, hist>>
    /\ UNCHANGED <<qvars, cvars>>

\* A piece of the body arrives: downloadWriteCallback -> on_data, which
\* returns 0 when paused_ is set and otherwise goes on to the rate limiter
RecvData ==
  \E w \in 1..Len(workers) :
    /\ workers[w].pc = "recv"
    /\ ~Blk(w).cancelled
    /\ workers[w].sent < Need(w)
    /\ IF Blk(w).paused
       THEN Leave(w, heap)
       ELSE /\ workers' = [workers EXCEPT ![w] = [@ EXCEPT
                    !.pc = "acquire",
                    !.chunk = Min(ChunkSize, Need(w) - workers[w].sent)]]
            /\ UNCHANGED heap
    /\ UNCHANGED <<state_, auto_retry_count_, error_message_, file_size_, etag_, last_modified_,
                   file_path_, blocks_, progress_, jobs, files, metas,
                   calls, netFails, etagChanges, limit, hist>>
    /\ UNCHANGED <<qvars, cvars>>

\* The transfer fails: a retryable error starts another attempt with the SAME
\* range_start/range_end arguments while attempts remain, anything else throws
RecvFail ==
  \E w \in 1..Len(workers), retryable \in BOOLEAN :
    /\ workers[w].pc = "recv"
    /\ ~Blk(w).cancelled
    /\ workers[w].sent < Need(w)
    /\ MayFail
    /\ netFails' = netFails + 1
    /\ IF retryable /\ workers[w].attempt + 1 < max_retries + 1
       THEN /\ workers' = [workers EXCEPT ![w] = [@ EXCEPT
                    !.pc = "attempt", !.attempt = @ + 1]]
            /\ UNCHANGED <<heap, hist>>
       ELSE /\ Leave(w, heap)
            /\ hist' = Failing(w)
    /\ UNCHANGED <<state_, auto_retry_count_, error_message_, file_size_, etag_, last_modified_,
                   file_path_, blocks_, progress_, jobs, files, metas,
                   calls, etagChanges, limit>>
    /\ UNCHANGED <<qvars, cvars>>

\* Task::onBlockProgress up to the decision to run checkCompletion, with the
\* collection and state as they are when the callback runs
RunsCompletion(h) ==
    /\ state_ # "Cancelled"
    /\ \A o \in Range(blocks_) : h[o].info.completed
    /\ state_ = "Downloading"

Reported(n) == IF state_ = "Cancelled" THEN progress_ ELSE addBytes(progress_, n)

\* on_data after TokenBucket::acquire granted the chunk: writeAtOffset at
\* current_offset, advance current_offset and info_.downloaded, report the
\* delta through Task::onBlockProgress
Write ==
  \E w \in 1..Len(workers) :
    /\ workers[w].pc = "acquire"
    /\ LET lo == workers[w].cur
           hi == workers[w].cur + workers[w].chunk - 1
           p == Blk(w).path
       IN files' = [files EXCEPT ![p] =
                        [exists |-> TRUE,
                         size |-> Max(files[p].size, hi + 1),
                         written |-> AddWritten(files[p].written, lo, hi)]]
    /\ heap' = [heap EXCEPT ![Obj(w)].info.downloaded = @ + workers[w].chunk]
    /\ progress_' = Reported(workers[w].chunk)
    /\ workers' = [workers EXCEPT ![w] = [@ EXCEPT
                !.pc = IF RunsCompletion(heap) THEN "complete" ELSE "recv",
                !.cur = @ + workers[w].chunk,
                !.sent = @ + workers[w].chunk,
                !.chunk = 0]]
    /\ UNCHANGED <<state_, auto_retry_count_, error_message_, file_size_, etag_, last_modified_,
                   file_path_, blocks_, jobs, metas,
                   calls, netFails, etagChanges, limit, hist>>
    /\ UNCHANGED <<qvars, cvars>>

\* The server has sent the whole requested range: download returns; Block::
\* execute sets completed = true unless paused_, and sends the zero-delta
\* progress event
Finish ==
  \E w \in 1..Len(workers) :
    /\ workers[w].pc = "recv"
    /\ ~Blk(w).cancelled
    /\ Need(w) > 0
    /\ workers[w].sent = Need(w)
    /\ IF Blk(w).paused
       THEN Leave(w, heap)
       ELSE LET h == [heap EXCEPT ![Obj(w)].info.completed = TRUE]
            IN IF RunsCompletion(h)
               THEN /\ heap' = h
                    /\ workers' = [workers EXCEPT ![w] = [@ EXCEPT
                            !.pc = "complete", !.final = TRUE]]
               ELSE Leave(w, h)
    /\ UNCHANGED <<state_, auto_retry_count_, error_message_, file_size_, etag_, last_modified_,
                   file_path_, blocks_, progress_, jobs, files, metas,
                   calls, netFails, etagChanges, limit, hist>>
    /\ UNCHANGED <<qvars, cvars>>

\* Task::checkCompletion: size check, Completed (or Failed), metadata removal.
\* The categorizer's move keeps the file under file_path_.
checkCompletion ==
  \E w \in 1..Len(workers) :
    /\ workers[w].pc = "complete"
    /\ IF file_size_ > 0 /\ (~files[file_path_].exists \/ files[file_path_].size # file_size_)
       THEN /\ state_' = "Failed"
            /\ UNCHANGED metas
            /\ hist' = setState(completionRuns(hist), state_, "Failed")
       ELSE /\ state_' = "Completed"
            /\ metas' = [metas EXCEPT ![file_path_] = NoMeta]
            /\ hist' = setState(completionRuns(hist), state_, "Completed")
    /\ IF workers[w].final
       THEN Leave(w, heap)
       ELSE /\ workers' = [workers EXCEPT ![w].pc = "recv"]
            /\ UNCHANGED heap
    /\ UNCHANGED <<auto_retry_count_, error_message_, file_size_, etag_, last_modified_,
                   file_path_, blocks_, progress_, jobs, files,
                   calls, netFails, etagChanges, limit>>
    /\ UNCHANGED <<qvars, cvars>>

\* A work item whose Block/HttpEngine was destroyed under it (blocks_.clear()
\* while items still hold the raw pointer) runs on freed memory: it may go on
\* as if the objects were intact (the actions above) or die here.
DanglingAbort ==
  \E w \in 1..Len(workers) :
    /\ Blk(w).freed
    /\ Leave(w, heap)
    /\ UNCHANGED <<state_, auto_retry_count_, error_message_, file_size_, etag_, last_modified_,
                   file_path_, blocks_, progress_, jobs, files, metas,
                   calls, netFails, etagChanges, limit, hist>>
    /\ UNCHANGED <<qvars, cvars>>

Next ==
    \/ start
    \/ pause
    \/ resume
    \/ cancel
    \/ ProbeFail
    \/ RetryStart
    \/ FetchInfoOk
    \/ allocateFile
    \/ createBlocks
    \/ ResumeProbeOk
    \/ Execute
    \/ Attempt
    \/ RecvAbort
    \/ RecvData
    \/ RecvFail
    \/ Write
    \/ Finish
    \/ checkCompletion
    \/ DanglingAbort

Spec == Init /\ [][Next]_vars

\* ========================================================================
\* Part II: TaskQueue and DownloadManager over several Tasks.  A Task is kept
\* as its identity, its state and its work items; the work of a job between
\* its submission and the state change it ends with is one step.
\* ========================================================================
auto_start_ == TRUE

Urls == 1..MaxUrls
Handles == 1..MaxTasks
Terminal == {"Completed", "Failed", "Cancelled"}

MayCallQ == qcalls < MaxQCalls
MayFailQ == qfails < MaxQFail

\* Work items: the job of Task::start or of Task::resume of a task, running
\* ("run") or in the sleep of the auto-retry ("sleep")
QJobs == Handles \X {"start", "resume"} \X {"run", "sleep"}
Submit(jb, j) == [jb EXCEPT ![j] = @ + 1]
Return(jb, j) == [jb EXCEPT ![j] = @ - 1]

\* FileInfo::final_url of a redirected URL, and the URL the user submitted for
\* a task whose url_ may have been replaced by it
Redirected(u) == u + MaxUrls
Submitted(u) == IF u > MaxUrls THEN u - MaxUrls ELSE u

\* URLs are named in the order the user first asks for them
UsedUrls == {Submitted(task[h].url) : h \in Handles} \ {0}
NextUrls == {u \in Urls : u - 1 \in UsedUrls \cup {0}}

\* Tasks of a queue that are in a given state
InState(q, ts, st) == {i \in 1..Len(q) : ts[q[i]].state = st}
NumDownloading == Cardinality(InState(tasks_, task, "Downloading"))

\* std::find_if over tasks_ by Task::getId(): position of the first match, 0
\* when there is none
FindById(q, ts, id) ==
    IF \E i \in 1..Len(q) : ts[q[i]].id = id
    THEN CHOOSE i \in 1..Len(q) :
            /\ ts[q[i]].id = id
            /\ \A k \in 1..(i - 1) : ts[q[k]].id # id
    ELSE 0

\* TaskQueue::tryStartNext: walk tasks_ in order while active_count_ is below
\* max_concurrent_; Task::start() a Queued task (CAS Queued -> Downloading and
\* a job in the pool) and count it
RECURSIVE StartFrom(_, _, _, _, _, _)
StartFrom(i, q, ts, ac, mx, jb) ==
    IF i > Len(q) \/ ac >= mx
    THEN [task |-> ts, active |-> ac, jobs |-> jb]
    ELSE IF ts[q[i]].state = "Queued"
    THEN StartFrom(i + 1, q, [ts EXCEPT ![q[i]].state = "Downloading"],
                   ac + 1, mx, Submit(jb, <<q[i], "start", "run">>))
    ELSE StartFrom(i + 1, q, ts, ac, mx, jb)

tryStartNext(q, ts, ac, mx, jb) ==
    IF ~auto_start_
    THEN [task |-> ts, active |-> ac, jobs |-> jb]
    ELSE StartFrom(1, q, ts, ac, mx, jb)

\* Task::setState: store, and enter the callback when the state loaded before
\* the store differs from the new one
Notified(ts, h, new) ==
    IF ts[h].state # new
    THEN [pending EXCEPT ![ts[h].id] = @ + 1]
    ELSE pending

\* The step counted task h into active_count_: tryStartNext found it Queued,
\* possibly just added, and started it (the nested start() of the auto-retry
\* does not count)
Incremented(h) ==
    /\ task[h].state \in {"None", "Queued"}
    /\ task'[h].state = "Downloading"
    /\ qjobs'[<<h, "start", "sleep">>] >= qjobs[<<h, "start", "sleep">>]

\* The step counted active_count_ down on behalf of task h: removeTask erased
\* it while Downloading, or onTaskFinished found it under the id of a callback
Decremented(h) ==
    \/ /\ qcalls' = qcalls + 1
       /\ h \in Range(tasks_)
       /\ h \notin Range(tasks_')
       /\ task[h].state = "Downloading"
    \/ \E id \in 0..MaxTasks :
          /\ pending'[id] < pending[id]
          /\ FindById(tasks_, task, id) # 0
          /\ tasks_[FindById(tasks_, task, id)] = h
          /\ active_count_ > 0

\* Observations: the cap was lowered; a queued task left Downloading for a
\* terminal state while a Queued task waits in the queue and fewer tasks than
\* the cap are Downloading, and no Queued task has been started since
Track ==
    hq' = [capLowered |-> hq.capLowered \/ max_concurrent_' < max_concurrent_,
           owed |->
              IF \/ \E h \in Handles : task[h].state = "Queued"
                                        /\ task'[h].state = "Downloading"
                 \/ InState(tasks_', task', "Queued") = {}
              THEN FALSE
              ELSE IF /\ \E h \in Range(tasks_) :
                            /\ task[h].state = "Downloading"
                            /\ task'[h].state \in Terminal
                      /\ Cardinality(InState(tasks_', task', "Downloading"))
                            < max_concurrent_'
              THEN TRUE
              ELSE hq.owed,
           inc |-> [h \in Handles |->
                      IF Incremented(h) THEN hq.inc[h] + 1 ELSE hq.inc[h]],
           dec |-> [h \in Handles |->
                      IF Decremented(h) THEN hq.dec[h] + 1 ELSE hq.dec[h]],
           paused |-> hq.paused \cup {h \in Handles : task'[h].state = "Paused"}]

\* DownloadManager::addDownload: an URL some live task already has returns
\* that task's id; otherwise a new Task under the next id joins the map and
\* the queue (TaskQueue::addTask: push_back, tryStartNext)
addDownload ==
  \E url \in NextUrls :
    /\ next_task_id_ <= MaxTasks
    /\ ~\E h \in tasks_by_id_ :
            task[h].url = url /\ task[h].state \notin Terminal
    /\ LET h == next_task_id_
           ts == [task EXCEPT ![h] =
                     [id |-> h, url |-> url, state |-> "Queued", retries |-> 0]]
           r == tryStartNext(Append(tasks_, h), ts, active_count_,
                             max_concurrent_, qjobs)
       IN /\ next_task_id_' = h + 1
          /\ tasks_by_id_' = tasks_by_id_ \cup {h}
          /\ tasks_' = Append(tasks_, h)
          /\ task' = r.task
          /\ active_count_' = r.active
          /\ qjobs' = r.jobs
    /\ UNCHANGED <<max_concurrent_, pending, qcalls, qfails>>
    /\ Track
    /\ UNCHANGED <<vars, cvars>>

\* DownloadManager::recoverTasks (called by main() before the user can act),
\* one metadata file: Task::fromMeta builds a Paused task whose task_id_ is 0;
\* it is kept under the next id of the map. The records left on disk are those
\* of downloads of different URLs.
recoverTasks ==
  \E url \in NextUrls \ UsedUrls :
    /\ next_task_id_ <= MaxTasks
    /\ qcalls = 0
    /\ \A h \in Handles : task[h].id = 0
    /\ LET h == next_task_id_
           ts == [task EXCEPT ![h] =
                     [id |-> 0, url |-> url, state |-> "Paused", retries |-> 0]]
           r == tryStartNext(Append(tasks_, h), ts, active_count_,
                             max_concurrent_, qjobs)
       IN /\ next_task_id_' = h + 1
          /\ tasks_by_id_' = tasks_by_id_ \cup {h}
          /\ tasks_' = Append(tasks_, h)
          /\ task' = r.task
          /\ active_count_' = r.active
          /\ qjobs' = r.jobs
    /\ UNCHANGED <<max_concurrent_, pending, qcalls, qfails>>
    /\ Track
    /\ UNCHANGED <<vars, cvars>>

\* DownloadManager::pauseTask -> Task::pause: CAS Downloading -> Paused; the
\* closing setState(Paused) finds the state already stored
pauseTask ==
  \E h \in tasks_by_id_ :
    /\ MayCallQ
    /\ task[h].state = "Downloading"
    /\ task' = [task EXCEPT ![h].state = "Paused"]
    /\ qcalls' = qcalls + 1
    /\ UNCHANGED <<tasks_, active_count_, max_concurrent_, tasks_by_id_,
                   next_task_id_, qjobs, pending, qfails>>
    /\ Track
    /\ UNCHANGED <<vars, cvars>>

\* DownloadManager::resumeTask -> Task::resume: CAS Paused or Failed ->
\* Downloading, a resume job in the pool
resumeTask ==
  \E h \in tasks_by_id_ :
    /\ MayCallQ
    /\ task[h].state \in {"Paused", "Failed"}
    /\ task' = [task EXCEPT ![h].state = "Downloading"]
    /\ qjobs' = Submit(qjobs, <<h, "resume", "run">>)
    /\ qcalls' = qcalls + 1
    /\ UNCHANGED <<tasks_, active_count_, max_concurrent_, tasks_by_id_,
                   next_task_id_, pending, qfails>>
    /\ Track
    /\ UNCHANGED <<vars, cvars>>

\* DownloadManager::cancelTask -> Task::cancel: state_.store(Cancelled) first,
\* so the closing setState(Cancelled) finds no change
cancelTask ==
  \E h \in tasks_by_id_ :
    /\ MayCallQ
    /\ task[h].state # "Cancelled"
    /\ task' = [task EXCEPT ![h].state = "Cancelled"]
    /\ qcalls' = qcalls + 1
    /\ UNCHANGED <<tasks_, active_count_, max_concurrent_, tasks_by_id_,
                   next_task_id_, qjobs, pending, qfails>>
    /\ Track
    /\ UNCHANGED <<vars, cvars>>

\* DownloadManager::removeTask: TaskQueue::removeTask (find by getId(); count
\* down if the task is Downloading; erase; tryStartNext; then Task::cancel
\* outside the lock), then the entry of the map is erased
removeTask ==
  \E id \in Handles :
    /\ MayCallQ
    /\ id \in tasks_by_id_ \/ FindById(tasks_, task, id) # 0
    /\ LET i == FindById(tasks_, task, id)
       IN IF i = 0
          THEN UNCHANGED <<tasks_, task, active_count_, qjobs>>
          ELSE LET h == tasks_[i]
                   ac == IF task[h].state = "Downloading"
                         THEN active_count_ - 1 ELSE active_count_
                   q == Drop(tasks_, i)
                   r == tryStartNext(q, task, ac, max_concurrent_, qjobs)
               IN /\ tasks_' = q
                  /\ task' = [r.task EXCEPT ![h].state = "Cancelled"]
                  /\ active_count_' = r.active
                  /\ qjobs' = r.jobs
    /\ tasks_by_id_' = tasks_by_id_ \ {id}
    /\ qcalls' = qcalls + 1
    /\ UNCHANGED <<max_concurrent_, next_task_id_, pending, qfails>>
    /\ Track
    /\ UNCHANGED <<vars, cvars>>

\* DownloadManager::updateConfig -> TaskQueue::setMaxConcurrent: clamp, then
\* tryStartNext
setMaxConcurrent ==
  \E max \in 1..MaxCap :
    /\ MayCallQ
    /\ LET mx == Max(1, Min(max, MaxConcurrentLimit))
           r == tryStartNext(tasks_, task, active_count_, mx, qjobs)
       IN /\ max_concurrent_' = mx
          /\ task' = r.task
          /\ active_count_' = r.active
          /\ qjobs' = r.jobs
    /\ qcalls' = qcalls + 1
    /\ UNCHANGED <<tasks_, tasks_by_id_, next_task_id_, pending, qfails>>
    /\ Track
    /\ UNCHANGED <<vars, cvars>>

\* DownloadManager::onTaskStateChange for Completed/Failed/Cancelled ->
\* TaskQueue::onTaskFinished: nothing when no queued task has this id, else
\* count down (not below 0) and tryStartNext
onTaskFinished ==
  \E id \in 0..MaxTasks :
    /\ pending[id] > 0
    /\ pending' = [pending EXCEPT ![id] = @ - 1]
    /\ IF FindById(tasks_, task, id) = 0
       THEN UNCHANGED <<task, active_count_, qjobs>>
       ELSE LET ac == IF active_count_ > 0
                      THEN active_count_ - 1 ELSE active_count_
                r == tryStartNext(tasks_, task, ac, max_concurrent_, qjobs)
            IN /\ task' = r.task
               /\ active_count_' = r.active
               /\ qjobs' = r.jobs
    /\ UNCHANGED <<tasks_, max_concurrent_, tasks_by_id_, next_task_id_,
                   qcalls, qfails>>
    /\ Track
    /\ UNCHANGED <<vars, cvars>>

\* The job of Task::start / Task::resume ends in its catch clause: the start
\* job's auto-retry (state_.store(Queued), then sleep) for a retryable error
\* while retries remain, else setState(Failed)
JobFails ==
  \E j \in QJobs, retryable \in BOOLEAN :
    /\ qjobs[j] > 0
    /\ j[3] = "run"
    /\ MayFailQ
    /\ qfails' = qfails + 1
    /\ LET h == j[1]
       IN IF /\ j[2] = "start"
             /\ retryable
             /\ task[h].retries < kMaxAutoRetries
          THEN /\ task' = [task EXCEPT ![h].retries = @ + 1,
                                       ![h].state = "Queued"]
               /\ qjobs' = Submit(Return(qjobs, j), <<h, "start", "sleep">>)
               /\ UNCHANGED pending
          ELSE /\ task' = [task EXCEPT ![h].state = "Failed"]
               /\ pending' = Notified(task, h, "Failed")
               /\ qjobs' = Return(qjobs, j)
    /\ UNCHANGED <<tasks_, active_count_, max_concurrent_, tasks_by_id_,
                   next_task_id_, qcalls>>
    /\ Track
    /\ UNCHANGED <<vars, cvars>>

\* Task::fetchFileInfoAndStart in the start job: the probe followed a redirect
\* and url_ becomes the final URL
JobRedirects ==
  \E j \in QJobs :
    /\ qjobs[j] > 0
    /\ j[2] = "start"
    /\ j[3] = "run"
    /\ task[j[1]].url \in Urls
    /\ task' = [task EXCEPT ![j[1]].url = Redirected(@)]
    /\ UNCHANGED <<tasks_, active_count_, max_concurrent_, tasks_by_id_,
                   next_task_id_, qjobs, pending, qcalls, qfails>>
    /\ Track
    /\ UNCHANGED <<vars, cvars>>

\* After the sleep of the auto-retry: Task::start() again, which goes on
\* only if the state is still Queued
JobRetries ==
  \E j \in QJobs :
    /\ qjobs[j] > 0
    /\ j[3] = "sleep"
    /\ LET h == j[1]
       IN IF task[h].state = "Queued"
          THEN /\ task' = [task EXCEPT ![h].state = "Downloading"]
               /\ qjobs' = Submit(Return(qjobs, j), <<h, "start", "run">>)
          ELSE /\ qjobs' = Return(qjobs, j)
               /\ UNCHANGED task
    /\ UNCHANGED <<tasks_, active_count_, max_concurrent_, tasks_by_id_,
                   next_task_id_, pending, qcalls, qfails>>
    /\ Track
    /\ UNCHANGED <<vars, cvars>>

\* The last block's progress event finds every block complete and the state
\* Downloading: Task::checkCompletion, setState(Completed)
JobCompletes ==
  \E j \in QJobs :
    /\ qjobs[j] > 0
    /\ j[3] = "run"
    /\ task[j[1]].state = "Downloading"
    /\ task' = [task EXCEPT ![j[1]].state = "Completed"]
    /\ pending' = Notified(task, j[1], "Completed")
    /\ qjobs' = Return(qjobs, j)
    /\ UNCHANGED <<tasks_, active_count_, max_concurrent_, tasks_by_id_,
                   next_task_id_, qcalls, qfails>>
    /\ Track
    /\ UNCHANGED <<vars, cvars>>

\* The work items of a paused or cancelled task return without a state change
JobReturns ==
  \E j \in QJobs :
    /\ qjobs[j] > 0
    /\ j[3] = "run"
    /\ task[j[1]].state \in {"Paused", "Cancelled"}
    /\ qjobs' = Return(qjobs, j)
    /\ UNCHANGED <<tasks_, active_count_, max_concurrent_, tasks_by_id_,
                   next_task_id_, task, pending, qcalls, qfails>>
    /\ Track
    /\ UNCHANGED <<vars, cvars>>

NextQ ==
    \/ addDownload
    \/ recoverTasks
    \/ pauseTask
    \/ resumeTask
    \/ cancelTask
    \/ removeTask
    \/ setMaxConcurrent
    \/ onTaskFinished
    \/ JobFails
    \/ JobRedirects
    \/ JobRetries
    \/ JobCompletes
    \/ JobReturns

InitQ == TaskInit /\ Idle /\ \E cap \in 1..MaxCap : QueueInit(cap)

SpecQ == InitQ /\ [][NextQ]_qvars

\* Scheduling: a callback that was entered goes on to the queue, a sleeping
\* retry wakes up, and a job in the pool comes to its end
FairSpecQ ==
    /\ SpecQ
    /\ WF_qvars(onTaskFinished)
    /\ WF_qvars(JobRetries)
    /\ WF_qvars(JobCompletes \/ JobReturns)

\* ------------------------------------------------------------------------
\* Properties of one Task (specification Spec)
\* ------------------------------------------------------------------------

\* C1: once the state is Completed or Cancelled, no step changes it
C1_TerminalNeverChanges ==
    [][(state_ \in {"Completed", "Cancelled"}) => (state_' = state_)]_vars

\* A step in which some block's downloaded count grows: a worker wrote bytes
WroteBytes ==
    \E o \in DOMAIN heap \cap DOMAIN heap' :
        heap'[o].info.downloaded > heap[o].info.downloaded

\* C5: while the task is Paused (pause() has returned, resume() has not been
\* called) no block worker writes bytes to the destination file
C5_NoWriteWhilePaused ==
    [][state_ = "Paused" => ~WroteBytes]_vars

\* C6: after cancel() has returned, neither the destination file nor the
\* metadata file exists, under any name the task has used
C6_NothingLeftAfterCancel ==
    hist.cancelReturned =>
        \A p \in Paths : ~files[p].exists /\ ~metas[p].present

\* The written intervals of a file cover every byte from x up to hi
RECURSIVE CoveredFrom(_, _, _)
CoveredFrom(written, x, hi) ==
    \/ x > hi
    \/ \E iv \in written :
          /\ iv[1] <= x
          /\ x <= iv[2]
          /\ CoveredFrom(written, iv[2] + 1, hi)

FullyWritten ==
    /\ files[file_path_].exists
    /\ CoveredFrom(files[file_path_].written, 0, file_size_ - 1)

\* C7: the task enters Completed only with a non-empty block collection whose
\* blocks are all complete and with all bytes 0..size-1 written
C7_CompletedOnlyWhenAllWritten ==
    [][(state_ # "Completed" /\ state_' = "Completed") =>
          /\ blocks_ # <<>>
          /\ \A o \in Range(blocks_) : heap[o].info.completed
          /\ FullyWritten]_vars

\* No work item is left: nothing but a caller can change the task any more
Quiescent == jobs = <<>> /\ workers = <<>>

\* C8: when a block of a Downloading task has ended with an unrecoverable
\* error and all work of the task has ended, the task is not left Downloading
C8_BlockErrorLeavesDownloading ==
    (hist.blockFailed /\ Quiescent) => state_ # "Downloading"

\* The step is a write of worker w (only Write leaves "acquire" in place)
IsWriteOf(w) ==
    /\ w \in 1..Len(workers)
    /\ Len(workers') = Len(workers)
    /\ workers[w].pc = "acquire"
    /\ workers'[w].pc # "acquire"

\* C9: every write of a worker lies inside its own block's range
C9_WritesInsideOwnRange ==
    [][\A w \in 1..Len(workers) :
          IsWriteOf(w) =>
             /\ Blk(w).info.range_start <= workers[w].cur
             /\ workers[w].cur + workers[w].chunk - 1 <= Blk(w).info.range_end]_vars

\* C10: for every block of the task, 0 <= downloaded <= size of its range,
\* and a completed block has downloaded its whole range
C10_DownloadedWithinRange ==
    \A o \in Range(blocks_) :
        LET b == heap[o].info
            len == b.range_end - b.range_start + 1
        IN /\ 0 <= b.downloaded
           /\ b.downloaded <= len
           /\ b.completed => b.downloaded = len

\* ------------------------------------------------------------------------
\* Properties of the queue and the manager (specifications SpecQ, FairSpecQ)
\* ------------------------------------------------------------------------

\* No state-change callback is between its Task's store and the queue
NoCallbackInFlight == \A id \in 0..MaxTasks : pending[id] = 0

\* C2: whenever no callback is in flight, active_count equals the number of
\* tasks of the queue whose state is Downloading
C2_ActiveCountIsDownloading ==
    NoCallbackInFlight => active_count_ = NumDownloading

\* C3: as long as the cap has not been lowered, the number of queued tasks
\* in Downloading does not exceed the cap
C3_DownloadingWithinCap ==
    ~hq.capLowered => NumDownloading <= max_concurrent_

\* C4: when a task has left Downloading for Completed, Failed or Cancelled
\* while a Queued task waits and a slot is free, a Queued task is eventually
\* started (or none is left waiting)
C4_QueuedEventuallyStarted ==
    hq.owed ~> ~hq.owed

\* ------------------------------------------------------------------------
\* A task recovered from a record on disk (Task::fromMeta), then resumed
\* ------------------------------------------------------------------------

\* Validator strings a record can hold: none, or the tag of a server version
Validators == 0..(MaxEtagChange + 1)

\* Block lists a paused download leaves in its record: the split of the file,
\* each block with nothing, one piece or all of its range downloaded
Persisted(bi, d) ==
    [bi EXCEPT !.downloaded = d,
               !.completed = (d = bi.range_end - bi.range_start + 1)]

RecordBlocks ==
    LET infos == splitBlocks(FileSize, MaxBlocks, TRUE)
        Amounts == {0, ChunkSize, FileSize \div MaxBlocks}
    IN {[i \in 1..Len(infos) |-> Persisted(infos[i], ds[i])] :
           ds \in [1..Len(infos) -> Amounts]}

\* The bytes of the destination file that the blocks of a record cover
WrittenOf(bs) ==
    {<<bs[i].range_start, bs[i].range_start + bs[i].downloaded - 1>> :
        i \in {k \in 1..Len(bs) : bs[k].downloaded > 0}}

\* Task::fromMeta: Paused, size and validators of the record, no Block objects,
\* a ProgressMonitor seeded with the sum of the blocks' downloaded
fromMeta(meta) ==
    /\ state_ = "Paused"
    /\ auto_retry_count_ = 0
    /\ error_message_ = ""
    /\ file_size_ = meta.file_size
    /\ etag_ = meta.etag
    /\ last_modified_ = meta.last_modified
    /\ file_path_ = 0
    /\ blocks_ = <<>>
    /\ heap = <<>>
    /\ progress_ = addBytes(0, SumSeq([i \in 1..Len(meta.blocks) |->
                                         meta.blocks[i].downloaded]))
    /\ jobs = <<>>
    /\ workers = <<>>
    /\ files = [p \in Paths |->
                  IF p = 0 THEN [exists |-> TRUE, size |-> meta.file_size,
                                 written |-> WrittenOf(meta.blocks)]
                  ELSE NoFile]
    /\ metas = [p \in Paths |-> IF p = 0 THEN meta ELSE NoMeta]
    /\ calls = 0
    /\ netFails = 0
    /\ etagChanges = 0
    /\ hist = [cancelReturned |-> FALSE, blockFailed |-> FALSE,
              callbacks |-> 0, reported |-> "None", completions |-> 0,
              resumedFrom |-> "None"]

InitRecovered ==
    /\ \E et \in Validators, lm \in Validators, bs \in RecordBlocks :
          fromMeta([present |-> TRUE, file_size |-> FileSize, etag |-> et,
                    last_modified |-> lm, blocks |-> bs])
    /\ \E eh \in BOOLEAN, lh \in BOOLEAN :
          limit = [events |-> 2, calls |-> 1, net |-> 0, etag |-> MaxEtagChange,
                   etagHeader |-> eh, lastModifiedHeader |-> lh]
    /\ QueueInit(max_concurrent_tasks)
    /\ Idle

NextRecovered == resume \/ ResumeProbeOk

SpecRecovered == InitRecovered /\ [][NextRecovered]_vars

\* ------------------------------------------------------------------------
\* A task whose server keeps failing
\* ------------------------------------------------------------------------
MaxProbeFail == 4   \* network failures injected: one more than the auto-retries

\* The same task; the run explores one call of the caller and the failures
InitRetry ==
    /\ NewTask
    /\ limit = [events |-> MaxProbeFail + 1, calls |-> 1, net |-> MaxProbeFail,
                etag |-> 0, etagHeader |-> TRUE, lastModifiedHeader |-> TRUE]
    /\ QueueInit(max_concurrent_tasks)
    /\ Idle

\* With a single call of the caller no Block is destroyed while a worker
\* holds it, so the steps on a dangling Block are left out
NextRetry ==
    \/ start
    \/ pause
    \/ resume
    \/ cancel
    \/ ProbeFail
    \/ RetryStart
    \/ FetchInfoOk
    \/ allocateFile
    \/ createBlocks
    \/ ResumeProbeOk
    \/ Execute
    \/ Attempt
    \/ RecvAbort
    \/ RecvData
    \/ RecvFail
    \/ Write
    \/ Finish
    \/ checkCompletion

SpecRetry == InitRetry /\ [][NextRetry]_vars

\* ------------------------------------------------------------------------
\* Properties of resume, metadata and progress (specification Spec)
\* ------------------------------------------------------------------------

\* Bytes lo..hi of a file, none of which has been written
Unwritten(written, lo, hi) ==
    \A iv \in written : iv[2] < lo \/ iv[1] > hi

\* The step is the start of the request of the restored block of worker w
IsRequestOf(w) ==
    /\ w \in 1..Len(workers)
    /\ Len(workers') = Len(workers)
    /\ workers[w].restored
    /\ workers[w].pc = "queued"
    /\ workers'[w].pc = "recv"

\* C11: a block restored by resume() is incomplete in the record, its request
\* starts at range_start + downloaded, every byte of its range before that
\* offset is in the file and no byte from that offset on has been written
C11_ResumeAtPersistedOffset ==
    [][\A w \in 1..Len(workers) :
          IsRequestOf(w) =>
             LET b == Blk(w).info
                 f == files[Blk(w).path]
             IN /\ ~b.completed
                /\ workers'[w].req = b.range_start + b.downloaded
                /\ CoveredFrom(f.written, b.range_start, workers'[w].req - 1)
                /\ Unwritten(f.written, workers'[w].req, b.range_end)]_vars

\* The answer of the probe that ends in the step
ProbeAnswer ==
    [etag |-> ServerEtag(etagChanges'),
     last_modified |-> ServerLastModified(etagChanges')]

\* The step is the resume job j acting on the answer of its probe
IsResumeProbed(j) ==
    /\ j \in 1..Len(jobs)
    /\ jobs[j].pc = "rprobe"
    /\ netFails' = netFails
    /\ jobs' \in {SetJob(j, "alloc"), SetJob(j, "fprobe"), Drop(jobs, j)}

\* The step of job j dropped every block and goes on to a fresh split
Discarded(j) == jobs' = SetJob(j, "alloc") /\ blocks_' = <<>>

\* The step of job j took the blocks over from the record, counters included
Kept(j) ==
    metas[file_path_].present =>
        /\ jobs' = Drop(jobs, j)
        /\ [i \in 1..Len(blocks_') |-> heap'[blocks_'[i]].info]
              = Incomplete(metas[file_path_].blocks)
        /\ metas' = metas

\* A captured validator is not the value of the new answer
Differs(info) ==
    \/ etag_ # NoEtag /\ etag_ # info.etag
    \/ last_modified_ # NoLastModified /\ last_modified_ # info.last_modified

\* A captured validator that the new answer also carries has another value
DiffersWherePresent(info) ==
    \/ etag_ # NoEtag /\ info.etag # NoEtag /\ etag_ # info.etag
    \/ /\ last_modified_ # NoLastModified
       /\ info.last_modified # NoLastModified
       /\ last_modified_ # info.last_modified

BlocksOfFile ==
    LET live == [i \in 1..Len(blocks_) |-> getInfo(blocks_[i])]
        m == metas[file_path_]
        rec == IF m.present THEN m.blocks ELSE <<>>
    IN live \o SelectSeq(rec, LAMBDA bi :
                   \A i \in 1..Len(live) : live[i].block_id # bi.block_id)

BlocksDownloaded ==
    SumSeq([i \in 1..Len(BlocksOfFile) |-> BlocksOfFile[i].downloaded])

\* ProgressMonitor::snapshot().downloaded_bytes as Task::getInfo reports it
ProgressDownloaded == IF progress_ = NoProgress THEN 0 ELSE progress_

\* C13: while the task is not Cancelled, the sum of downloaded over all blocks
\* of its file is the progress tracker's cumulative downloaded_bytes
C13_BlocksSumIsProgress ==
    state_ # "Cancelled" => BlocksDownloaded = ProgressDownloaded

\* A block list that starts at offset 0 and has no gap or overlap
Contiguous(bs) ==
    /\ bs # <<>> => bs[1].range_start = 0
    /\ \A i \in 1..(Len(bs) - 1) : bs[i].range_end + 1 = bs[i + 1].range_start

\* C14: every record on disk holds a block list that starts at offset 0, is
\* contiguous and, when the size is known, ends at size - 1
C14_RecordBlocksTileFile ==
    \A p \in Paths :
        metas[p].present =>
            /\ Contiguous(metas[p].blocks)
            /\ metas[p].file_size > 0 =>
                  /\ metas[p].blocks # <<>>
                  /\ metas[p].blocks[Len(metas[p].blocks)].range_end
                        = metas[p].file_size - 1

\* Work items of a kind that wait at a position
JobsAt(js, kind, pc) == Cardinality({j \in 1..Len(js) : js[j] = NewJob(kind, pc)})

\* The step submitted the orchestration of start() / of resume()
StartSubmitted == JobsAt(jobs', "start", "fprobe") > JobsAt(jobs, "start", "fprobe")
ResumeSubmitted == JobsAt(jobs', "resume", "rprobe") > JobsAt(jobs, "resume", "rprobe")

\* The step is a caller's pause(): a call that is neither resume() nor cancel()
PauseActed == calls' = calls + 1 /\ ~ResumeSubmitted /\ state_' # "Cancelled"

\* The step is the start() call that the auto-retry makes after its sleep
NestedStart == JobsAt(jobs', "start", "sleep") < JobsAt(jobs, "start", "sleep")

\* C15: start() takes effect only on a Queued task, pause() only on a
\* Downloading one, resume() only on a Paused or Failed one; a start() on a
\* task in another state changes neither state, blocks nor record and submits
\* nothing
C15_CallsActOnlyInTheirState ==
    [][/\ StartSubmitted => state_ = "Queued" /\ state_' = "Downloading"
       /\ PauseActed => state_ = "Downloading" /\ state_' = "Paused"
       /\ ResumeSubmitted => state_ \in {"Paused", "Failed"} /\ state_' = "Downloading"
       /\ (NestedStart /\ state_ # "Queued") =>
             /\ state_' = state_
             /\ blocks_' = blocks_
             /\ metas' = metas
             /\ workers' = workers
             /\ Len(jobs') < Len(jobs)]_vars

\* The task was cancelled during the auto-retry's sleep: the sleeping lambda is
\* about to call start() on a task that is not Queued
C15_NestedStartOnCancelledTask ==
    /\ state_ = "Cancelled"
    /\ JobsAt(jobs, "start", "sleep") > 0

\* ------------------------------------------------------------------------
\* Properties of the manager and the queue (specification SpecQ)
\* ------------------------------------------------------------------------

\* The Task object of handle h was created and no shared_ptr holds it any more:
\* neither the queue's vector nor the manager's map (the pool's lambdas keep
\* raw pointers only), so its destructor has run
Destroyed(h) ==
    /\ task[h].state # "None"
    /\ h \notin Range(tasks_)
    /\ h \notin tasks_by_id_

\* A pool worker still has an orchestration of task h to run or to finish
InFlight(h) ==
    \E kind \in {"start", "resume"}, ph \in {"run", "sleep"} : qjobs[<<h, kind, ph>>] > 0

\* C16: no task is destroyed while a pool worker still executes its
\* orchestration
C16_AliveWhileWorkersRun ==
    \A h \in Handles : Destroyed(h) => ~InFlight(h)

\* Task h has left the queue and nothing of it is under way: no callback of
\* its id has still to reach the queue, no work item of it is in the pool
Settled(h) ==
    /\ task[h].state # "None"
    /\ h \notin Range(tasks_)
    /\ pending[task[h].id] = 0
    /\ ~InFlight(h)

\* C17: once a removed task that was counted into active_count_ once, and
\* was never paused, has settled, active_count_ has been counted down for it
\* exactly once
C17_DecrementedExactlyOnce ==
    \A h \in Handles :
        (Settled(h) /\ hq.inc[h] = 1 /\ h \notin hq.paused) => hq.dec[h] = 1

\* C18: every task the manager registered has an id no other registered task
\* has, reports in its TaskInfo the id it is registered under, and is the task
\* the queue finds under that id
C18_RegisteredIdIsTaskId ==
    \A h \in tasks_by_id_ :
        /\ \A g \in tasks_by_id_ \ {h} : task[g].id # task[h].id
        /\ task[h].id = h
        /\ h \in Range(tasks_) =>
              /\ FindById(tasks_, task, h) # 0
              /\ tasks_[FindById(tasks_, task, h)] = h

\* Tasks that are Queued, Downloading or Paused
Live == {h \in tasks_by_id_ : task[h].state \in {"Queued", "Downloading", "Paused"}}

\* C19: no two live tasks were created for the same submitted URL
C19_OneLiveTaskPerUrl ==
    \A g \in Live, h \in Live :
        Submitted(task[g].url) = Submitted(task[h].url) => g = h

\* ------------------------------------------------------------------------
\* Properties of the auto-retry (specification SpecRetry)
\* ------------------------------------------------------------------------

\* The step is a probe that failed: a failure that ends or parks a job
ProbeFailed == netFails' = netFails + 1 /\ jobs' # jobs

\* C20: a failed probe either auto-restarts the task, which takes a retryable
\* error and fewer than 3 earlier auto-restarts, or makes it Failed; a
\* non-retryable error, and a failure after 3 auto-restarts, make it Failed
\* without an auto-restart
C20_AtMostThreeAutoRestarts ==
    [][ProbeFailed =>
          /\ auto_retry_count_' <= kMaxAutoRetries
          /\ IF auto_retry_count_' # auto_retry_count_
             THEN /\ auto_retry_count_' = auto_retry_count_ + 1
                  /\ error_message_' = what(TRUE)
                  /\ state_' = "Queued"
             ELSE state_' = "Failed"
          /\ (error_message_' = what(FALSE) \/ auto_retry_count_ = kMaxAutoRetries) =>
                 /\ state_' = "Failed"
                 /\ auto_retry_count_' = auto_retry_count_]_vars

\* The probe failed four times with a retryable error: three auto-restarts,
\* then Failed
C20_FailedAfterThreeRestarts ==
    /\ state_ = "Failed"
    /\ auto_retry_count_ = kMaxAutoRetries
    /\ netFails = MaxProbeFail
    /\ error_message_ = what(TRUE)


(***************************************************************************)
(* Part III: HttpEngine on its own. One call (fetchFileInfo or download)   *)
(* runs its attempt loop while cancel() may arrive from another thread at  *)
(* any time, before the call included.                                     *)
(***************************************************************************)
MaxCancel == 2

\* What curl_easy_perform can report: a CURLcode and the response code
CurlErrors == {"CURLE_OPERATION_TIMEDOUT", "CURLE_PARTIAL_FILE",
               "CURLE_PEER_FAILED_VERIFICATION"}

HttpCodes == {200, 403, 404, 503}

\* The transfer's outcomes. The progress callback aborts the transfer only
\* when it reads the flag set; a write callback (none for HEAD) aborts it by
\* consuming less than it was given.
Answers(flag, has_body) ==
    {[res |-> "CURLE_OK", http_code |-> c] : c \in HttpCodes}
    \cup {[res |-> r, http_code |-> 0] : r \in CurlErrors}
    \cup (IF flag THEN {[res |-> "CURLE_ABORTED_BY_CALLBACK", http_code |-> 0]}
                  ELSE {})
    \cup (IF has_body THEN {[res |-> "CURLE_WRITE_ERROR", http_code |-> c] :
                              c \in HttpCodes \cup {0}}
                      ELSE {})

isRetryableCurlCode(code) ==
    code \in {"CURLE_OPERATION_TIMEDOUT", "CURLE_COULDNT_CONNECT",
              "CURLE_COULDNT_RESOLVE_HOST", "CURLE_COULDNT_RESOLVE_PROXY",
              "CURLE_GOT_NOTHING", "CURLE_RECV_ERROR", "CURLE_SEND_ERROR",
              "CURLE_PARTIAL_FILE"}

isNonRetryableHttpStatusBelow404(http_code) == http_code >= 400 /\ http_code < 404

isNonRetryableHttpStatus(http_code) == http_code >= 400 /\ http_code < 500

isTlsCertError(code) ==
    code \in {"CURLE_SSL_CERTPROBLEM", "CURLE_PEER_FAILED_VERIFICATION"}

HttpError(what_, retryable) == [what |-> what_, retryable |-> retryable]

max_attempts == max_retries + 1

\* throw: the call ends with the exception
Throw(error) ==
    request' = [request EXCEPT !.pc = "thrown", !.last_error = error]

\* continue: the next round of the attempt loop, or the throw after the loop
Continue(error) ==
    request' = [request EXCEPT !.attempt = @ + 1, !.last_error = error,
                               !.pc = IF request.attempt + 1 < max_attempts
                                      THEN "top" ELSE "thrown"]

\* HttpEngine::cancel(), from any thread at any time
engine_cancel ==
    /\ seen.cancels < MaxCancel
    /\ cancelled' = TRUE
    /\ seen' = [seen EXCEPT !.cancelCalled = TRUE, !.cancels = @ + 1,
                            !.cancelAt = IF @ = "never" THEN request.pc ELSE @]
    /\ UNCHANGED <<request, vars, qvars, bvars, pvars, fvars, mvars, gvars, lvars>>

\* The caller enters fetchFileInfo or download
EngineCall ==
    /\ request.op = "none"
    /\ \E op \in {"fetchFileInfo", "download"} :
         request' = [request EXCEPT !.op = op, !.pc = "top"]
    /\ UNCHANGED <<cancelled, seen, vars, qvars, bvars, pvars, fvars, mvars, gvars, lvars>>

\* The head of the attempt loop: download reads the flag, the probe does not
LoopTop ==
    /\ request.pc = "top"
    /\ IF request.op = "download" /\ cancelled
       THEN Throw(HttpError("Download cancelled", FALSE))
       ELSE request' = [request EXCEPT
                          !.pc = IF request.attempt > 0 THEN "sleep" ELSE "reset"]
    /\ UNCHANGED <<cancelled, seen, vars, qvars, bvars, pvars, fvars, mvars, gvars, lvars>>

\* The backoff sleep is over: the flag is read again
Wake ==
    /\ request.pc = "sleep"
    /\ IF cancelled
       THEN Throw(HttpError(IF request.op = "download" THEN "Download cancelled"
                                                       ELSE "Request cancelled",
                            FALSE))
       ELSE request' = [request EXCEPT !.pc = "reset"]
    /\ UNCHANGED <<cancelled, seen, vars, qvars, bvars, pvars, fvars, mvars, gvars, lvars>>

\* impl_->reset() and the request's setup: the attempt starts
Reset ==
    /\ request.pc = "reset"
    /\ cancelled' = FALSE
    /\ request' = [request EXCEPT !.pc = "perform"]
    /\ seen' = [seen EXCEPT !.started = @ + 1,
                            !.startedAfterCancel = @ \/ seen.cancelCalled]
    /\ UNCHANGED <<vars, qvars, bvars, pvars, fvars, mvars, gvars, lvars>>

\* curl_easy_perform returns
Perform ==
    /\ request.pc = "perform"
    /\ \E a \in Answers(cancelled, ~(request.op = "fetchFileInfo" /\ request.method = 0)) :
         /\ request' = [request EXCEPT !.pc = "result"]
         /\ seen' = [seen EXCEPT !.answer = a]
    /\ UNCHANGED <<cancelled, vars, qvars, bvars, pvars, fvars, mvars, gvars, lvars>>

\* The GET probe aborts its own transfer: CURLE_WRITE_ERROR with a status is
\* no error
Res(a) ==
    IF /\ request.op = "fetchFileInfo" /\ request.method = 1
       /\ a.res = "CURLE_WRITE_ERROR" /\ a.http_code > 0
    THEN "CURLE_OK" ELSE a.res

\* The code after curl_easy_perform: classify, then return, throw or continue
Classify ==
    /\ request.pc = "result"
    /\ LET res == Res(seen.answer)
           http_code == seen.answer.http_code
           probe == request.op = "fetchFileInfo"
       IN  IF res # "CURLE_OK"
           THEN IF cancelled
                THEN Throw(HttpError(IF probe THEN "Request cancelled"
                                              ELSE "Download cancelled", FALSE))
                ELSE IF isTlsCertError(res)
                THEN Throw(HttpError(res, FALSE))
                ELSE IF ~isRetryableCurlCode(res)
                THEN Throw(HttpError(res, FALSE))
                ELSE Continue(HttpError(res, TRUE))
           ELSE IF http_code >= 400
           THEN IF probe /\ request.method = 0 /\ http_code \in {403, 405}
                THEN request' = [request EXCEPT !.method = 1, !.attempt = 0,
                                                !.pc = "top",
                                                !.last_error = HttpError("Unknown error", FALSE)]
                ELSE IF isNonRetryableHttpStatus(http_code)
                THEN Throw(HttpError("HTTP error", FALSE))
                ELSE Continue(HttpError("HTTP error", TRUE))
           ELSE request' = [request EXCEPT !.pc = "returned"]
    /\ UNCHANGED <<cancelled, seen, vars, qvars, bvars, pvars, fvars, mvars, gvars, lvars>>

NextEngine ==
    \/ engine_cancel
    \/ EngineCall
    \/ LoopTop
    \/ Wake
    \/ Reset
    \/ Perform
    \/ Classify

InitEngine == TaskInit /\ QueueInit(max_concurrent_tasks) /\ Idle

SpecEngine == InitEngine /\ [][NextEngine]_<<vars, qvars, cvars>>



\* What the claims call a retryable failure: timeout, connection or DNS
\* failure, partial transfer, send/recv error, HTTP 5xx
RetryableFailure(a) ==
    \/ a.res \in {"CURLE_OPERATION_TIMEDOUT", "CURLE_COULDNT_CONNECT",
                  "CURLE_COULDNT_RESOLVE_HOST", "CURLE_PARTIAL_FILE",
                  "CURLE_SEND_ERROR", "CURLE_RECV_ERROR"}
    \/ a.res = "CURLE_OK" /\ a.http_code >= 500

\* ... and a non-retryable one: HTTP 4xx, TLS certificate failure, cancellation
NonRetryableFailure(a) ==
    \/ a.res = "CURLE_OK" /\ a.http_code >= 400 /\ a.http_code < 500
    \/ a.res \in {"CURLE_SSL_CERTPROBLEM", "CURLE_PEER_FAILED_VERIFICATION"}
    \/ a.res = "CURLE_ABORTED_BY_CALLBACK"

Cancellation == {"Download cancelled", "Request cancelled"}

\* C21: a fetch (download) makes at most max_retries + 1 attempts, starts a
\* further attempt only after an attempt that failed with a retryable error,
\* and throws a non-retryable error in the step that handles the attempt in
\* which it occurred.
C21_FetchRetriesOnlyRetryable ==
    [][request.op = "download" =>
         /\ seen'.started <= max_retries + 1
         /\ (seen'.started > seen.started /\ seen.started > 0
               => RetryableFailure(seen.answer))
         /\ (request' # request /\ request.pc = "result"
             /\ NonRetryableFailure(seen.answer)
               => request'.pc = "thrown" /\ ~request'.last_error.retryable)
      ]_<<vars, qvars, cvars>>

\* C21 witness: a fetch gave up after max_retries + 1 attempts that all failed
\* with a retryable error
C21_FetchGaveUpAfterAllAttempts ==
    /\ request.op = "download" /\ request.pc = "thrown"
    /\ seen.started = max_retries + 1
    /\ request.last_error.retryable

\* C22: once cancel() has been called on a fetcher it starts no attempt, and a
\* call that cancel() reached before an attempt or during a backoff sleep
\* ends with the cancellation error.
C22_CancelledFetcherStartsNoAttempt ==
    /\ ~seen.startedAfterCancel
    /\ (seen.cancelAt \in {"none", "top", "sleep"}
        /\ request.pc \in {"returned", "thrown"}
          => request.pc = "thrown" /\ request.last_error.what \in Cancellation)



(***************************************************************************)
(* Part III: TokenBucket on its own. Threads call acquire(n) while the     *)
(* clock advances and setRate()/cancel() arrive from other threads. Time   *)
(* is counted in units of 1/UnitsPerSec second.                            *)
(***************************************************************************)
UnitsPerSec == 2
MaxRate == 2
MaxTokens == 3
MaxAcquire == 3
MaxSetRate == 1
MaxWindow == 3

Rates == 0..MaxRate

\* TokenBucket::refill, with mutex_ held: the bucket after it, as
\* <<tokens_, now - last_refill_>>
refill ==
    IF elapsed <= 0 \/ rate_ <= 0
    THEN <<bucket_tokens_, elapsed>>
    ELSE LET new_tokens == (rate_ * elapsed) \div UnitsPerSec
         IN  IF new_tokens > 0
             THEN <<Min(bucket_tokens_ + new_tokens, max_tokens_), 0>>
             ELSE <<bucket_tokens_, elapsed>>

\* return from acquire()
Returns(t, n) == acq' = [acq EXCEPT ![t].pc = "idle", ![t].result = n]

\* What the observer of a window counts: tokens handed out while it is open
Count(n) ==
    granted' = [granted EXCEPT
                  !.tokens = IF granted.window = "open" THEN @ + n ELSE @]

\* One round of the loop in acquire(), with mutex_ held
Round(t) ==
    IF cancelled_
    THEN /\ Returns(t, 0)
         /\ UNCHANGED <<bucket_tokens_, elapsed, granted>>
    ELSE LET filled == refill
             tokens == acq[t].tokens
         IN  /\ elapsed' = filled[2]
             /\ IF filled[1] >= tokens
                THEN /\ bucket_tokens_' = filled[1] - tokens
                     /\ Returns(t, tokens)
                     /\ Count(tokens)
                ELSE /\ bucket_tokens_' = filled[1]
                     /\ acq' = [acq EXCEPT ![t].pc = "waiting"]
                     /\ UNCHANGED granted

\* A thread calls acquire(tokens)
acquire(t) ==
    /\ acq[t].pc = "idle"
    /\ granted.calls < MaxAcquire
    /\ \E tokens \in 0..MaxTokens :
         acq' = [acq EXCEPT ![t] = [pc |-> "entered", tokens |-> tokens,
                                    result |-> NoResult]]
    /\ granted' = [granted EXCEPT !.calls = @ + 1]
    /\ UNCHANGED <<rate_, bucket_tokens_, max_tokens_, elapsed, cancelled_>>
    /\ UNCHANGED <<vars, qvars, evars, pvars, fvars, mvars, gvars, lvars>>

\* acquire() up to its first wait or its return
Enter(t) ==
    /\ acq[t].pc = "entered"
    /\ IF acq[t].tokens <= 0
       THEN /\ Returns(t, 0)
            /\ UNCHANGED <<bucket_tokens_, elapsed, granted>>
       ELSE IF rate_ = 0
       THEN /\ Returns(t, acq[t].tokens)
            /\ Count(acq[t].tokens)
            /\ UNCHANGED <<bucket_tokens_, elapsed>>
       ELSE Round(t)
    /\ UNCHANGED <<rate_, max_tokens_, cancelled_>>
    /\ UNCHANGED <<vars, qvars, evars, pvars, fvars, mvars, gvars, lvars>>

\* cv_.wait_for returns (timeout, or a notification with its predicate true)
WaitOver(t) ==
    /\ acq[t].pc = "waiting"
    /\ IF rate_ = 0
       THEN /\ Returns(t, acq[t].tokens)
            /\ Count(acq[t].tokens)
            /\ UNCHANGED <<bucket_tokens_, elapsed>>
       ELSE Round(t)
    /\ UNCHANGED <<rate_, max_tokens_, cancelled_>>
    /\ UNCHANGED <<vars, qvars, evars, pvars, fvars, mvars, gvars, lvars>>

\* TokenBucket::setRate
setRate(rate_bytes_per_sec) ==
    /\ granted.sets < MaxSetRate
    /\ LET filled == refill
       IN  /\ elapsed' = filled[2]
           /\ bucket_tokens_' =
                IF rate_bytes_per_sec > 0 /\ filled[1] > rate_bytes_per_sec
                THEN rate_bytes_per_sec ELSE filled[1]
    /\ rate_' = rate_bytes_per_sec
    /\ max_tokens_' = rate_bytes_per_sec
    /\ granted' = [granted EXCEPT !.rateSet = TRUE, !.sets = @ + 1]
    /\ UNCHANGED <<cancelled_, acq>>
    /\ UNCHANGED <<vars, qvars, evars, pvars, fvars, mvars, gvars, lvars>>

\* TokenBucket::cancel
bucket_cancel ==
    /\ ~cancelled_
    /\ cancelled_' = TRUE
    /\ UNCHANGED <<rate_, bucket_tokens_, max_tokens_, elapsed, acq, granted>>
    /\ UNCHANGED <<vars, qvars, evars, pvars, fvars, mvars, gvars, lvars>>

\* The clock advances by one unit. Past one second the refill fills the bucket
\* whatever the excess, so the elapsed time is kept up to that.
Tick ==
    /\ elapsed' = Min(elapsed + 1, UnitsPerSec)
    /\ granted' = [granted EXCEPT
                     !.ticks = IF granted.window = "open" /\ @ < MaxWindow
                               THEN @ + 1 ELSE @,
                     !.window = IF @ = "open" /\ granted.ticks = MaxWindow
                                THEN "closed" ELSE @]
    /\ UNCHANGED <<rate_, bucket_tokens_, max_tokens_, cancelled_, acq>>
    /\ UNCHANGED <<vars, qvars, evars, pvars, fvars, mvars, gvars, lvars>>

\* An observer starts counting the tokens granted from this instant on
OpenWindow ==
    /\ granted.window = "unset"
    /\ granted' = [granted EXCEPT !.window = "open"]
    /\ UNCHANGED <<rate_, bucket_tokens_, max_tokens_, elapsed, cancelled_, acq>>
    /\ UNCHANGED <<vars, qvars, evars, pvars, fvars, mvars, gvars, lvars>>

NextAcquire ==
    \/ \E t \in Threads : acquire(t) \/ Enter(t) \/ WaitOver(t)
    \/ Tick
    \/ OpenWindow

NextBucket ==
    \/ NextAcquire
    \/ \E r \in Rates : setRate(r)
    \/ bucket_cancel

InitBucket ==
    /\ TaskInit /\ QueueInit(max_concurrent_tasks) /\ EngineInit /\ PoolInit /\ CallInit /\ MetaFileInit /\ MonitorInit /\ LockInit
    /\ \E rate \in Rates : BucketInit(rate)

SpecBucket == InitBucket /\ [][NextBucket]_<<vars, qvars, cvars>>

\* The bucket with a fixed positive rate and no cancellation; the scheduler
\* runs every thread that can take a step and the clock keeps advancing.
InitLimited ==
    /\ TaskInit /\ QueueInit(max_concurrent_tasks) /\ EngineInit /\ PoolInit /\ CallInit /\ MetaFileInit /\ MonitorInit /\ LockInit
    /\ \E rate \in 1..MaxRate : BucketInit(rate)

FairSpecBucket ==
    /\ InitLimited
    /\ [][NextAcquire]_<<vars, qvars, cvars>>
    /\ WF_<<vars, qvars, cvars>>(Tick)
    /\ \A t \in Threads : WF_<<vars, qvars, cvars>>(Enter(t) \/ WaitOver(t))

\* C23: after cancel() every acquire(n) with n >= 1 returns 0, whether it was
\* blocked at that moment or called later, at any rate including rate 0 and a
\* rate set after the cancel.
C23_CancelledAcquireReturnsZero ==
    [][\A t \in Threads :
         cancelled_ /\ acq[t].pc # "idle" /\ acq'[t].pc = "idle"
         /\ acq[t].tokens >= 1
           => acq'[t].result = 0]_<<vars, qvars, cvars>>

\* C24: with rate > 0 and no cancellation every acquire(n) with n >= 1
\* eventually returns exactly n, including n above the bucket capacity and
\* with several concurrent acquirers.
C24_AcquireEventuallyReturnsAll ==
    \A t \in Threads : \A n \in 1..MaxTokens :
        (acq[t].pc = "entered" /\ acq[t].tokens = n)
          ~> (acq[t].pc = "idle" /\ acq[t].result = n)

\* C25: at a fixed rate R > 0 the tokens granted over any interval of T
\* seconds never exceed R + R*T (here multiplied by UnitsPerSec, the interval
\* being granted.ticks units long).
C25_GrantedWithinBurstPlusRate ==
    granted.window = "open" /\ ~granted.rateSet /\ rate_ > 0
      => granted.tokens * UnitsPerSec
           <= rate_ * UnitsPerSec + rate_ * granted.ticks



(***************************************************************************)
(* Part III: ThreadPool on its own. Callers submit items, the workers run  *)
(* their loop, the owner destroys the pool. mutex_ is held from a worker's *)
(* evaluation of the wait predicate until it blocks, so submit() and the   *)
(* other workers cannot run in between; the destructor's store and notify  *)
(* take no lock and can.                                                   *)
(***************************************************************************)
MutexFree == \A w \in PoolWorkers : pool_workers_[w].pc # "parking"

Blocked == {w \in PoolWorkers : pool_workers_[w].pc = "blocked"}

\* ThreadPool::submit: throws on a stopped pool, else queues the item and
\* notifies one waiting worker
submit(i, throws) ==
    /\ item[i].state = "new"
    /\ dtor # "returned"
    /\ MutexFree
    /\ IF stopped_
       THEN /\ item' = [item EXCEPT ![i].state = "rejected"]
            /\ UNCHANGED <<pool_tasks_, notified>>
       ELSE /\ item' = [item EXCEPT ![i] = [state |-> "accepted", throws |-> throws,
                                            future |-> "pending", runs |-> 0]]
            /\ pool_tasks_' = Append(pool_tasks_, i)
            /\ \/ Blocked = {} /\ UNCHANGED notified
               \/ \E w \in Blocked : notified' = notified \cup {w}
    /\ UNCHANGED <<stopped_, pool_workers_, dtor, ran>>
    /\ UNCHANGED <<vars, qvars, evars, bvars, fvars, mvars, gvars, lvars>>

\* A worker that stops as soon as it sees stopped_
WorkerCheckStopsAtOnce(w) ==
    /\ pool_workers_[w].pc = "ready"
    /\ MutexFree
    /\ IF stopped_
       THEN /\ pool_workers_' = [pool_workers_ EXCEPT ![w].pc = "exited"]
            /\ UNCHANGED pool_tasks_
       ELSE IF pool_tasks_ # <<>>
       THEN /\ pool_workers_' = [pool_workers_ EXCEPT
                                   ![w] = [pc |-> "running", task |-> Head(pool_tasks_)]]
            /\ pool_tasks_' = Tail(pool_tasks_)
       ELSE /\ pool_workers_' = [pool_workers_ EXCEPT ![w].pc = "parking"]
            /\ UNCHANGED pool_tasks_
    /\ UNCHANGED <<stopped_, notified, item, dtor, ran>>
    /\ UNCHANGED <<vars, qvars, evars, bvars, fvars, mvars, gvars, lvars>>

\* The worker loop with mutex_ taken: the wait predicate, then exit or pop
WorkerCheck(w) ==
    /\ pool_workers_[w].pc = "ready"
    /\ MutexFree
    /\ IF stopped_ /\ pool_tasks_ = <<>>
       THEN /\ pool_workers_' = [pool_workers_ EXCEPT ![w].pc = "exited"]
            /\ UNCHANGED pool_tasks_
       ELSE IF pool_tasks_ # <<>>
       THEN /\ pool_workers_' = [pool_workers_ EXCEPT
                                   ![w] = [pc |-> "running", task |-> Head(pool_tasks_)]]
            /\ pool_tasks_' = Tail(pool_tasks_)
       ELSE /\ pool_workers_' = [pool_workers_ EXCEPT ![w].pc = "parking"]
            /\ UNCHANGED pool_tasks_
    /\ UNCHANGED <<stopped_, notified, item, dtor, ran>>
    /\ UNCHANGED <<vars, qvars, evars, bvars, fvars, mvars, gvars, lvars>>

\* The predicate was false: the worker releases mutex_ and blocks
Park(w) ==
    /\ pool_workers_[w].pc = "parking"
    /\ pool_workers_' = [pool_workers_ EXCEPT ![w].pc = "blocked"]
    /\ UNCHANGED <<stopped_, pool_tasks_, notified, item, dtor, ran>>
    /\ UNCHANGED <<vars, qvars, evars, bvars, fvars, mvars, gvars, lvars>>

\* A notified worker wakes and evaluates the predicate again
Unpark(w) ==
    /\ pool_workers_[w].pc = "blocked"
    /\ w \in notified
    /\ notified' = notified \ {w}
    /\ pool_workers_' = [pool_workers_ EXCEPT ![w].pc = "ready"]
    /\ UNCHANGED <<stopped_, pool_tasks_, item, dtor, ran>>
    /\ UNCHANGED <<vars, qvars, evars, bvars, fvars, mvars, gvars, lvars>>

\* A worker that a failing item takes down
RunDiesOnThrow(w) ==
    /\ pool_workers_[w].pc = "running"
    /\ LET i == pool_workers_[w].task
       IN  /\ item' = [item EXCEPT ![i].runs = @ + 1,
                                   ![i].future = IF item[i].throws THEN @ ELSE "value"]
           /\ pool_workers_' = [pool_workers_ EXCEPT
                                  ![w] = [pc |-> IF item[i].throws THEN "exited"
                                                                   ELSE "ready",
                                          task |-> 0]]
           /\ ran' = [ran EXCEPT !.order = Append(@, <<w, i>>)]
    /\ UNCHANGED <<stopped_, pool_tasks_, notified, dtor>>
    /\ UNCHANGED <<vars, qvars, evars, bvars, fvars, mvars, gvars, lvars>>

\* task(): the packaged_task runs the item and stores its value or its
\* exception in the future; the worker goes round its loop
Run(w) ==
    /\ pool_workers_[w].pc = "running"
    /\ LET i == pool_workers_[w].task
       IN  /\ item' = [item EXCEPT ![i].runs = @ + 1,
                                   ![i].future = IF item[i].throws THEN "exception"
                                                                   ELSE "value"]
           /\ pool_workers_' = [pool_workers_ EXCEPT ![w] = [pc |-> "ready", task |-> 0]]
           /\ ran' = [ran EXCEPT !.order = Append(@, <<w, i>>)]
    /\ UNCHANGED <<stopped_, pool_tasks_, notified, dtor>>
    /\ UNCHANGED <<vars, qvars, evars, bvars, fvars, mvars, gvars, lvars>>

\* ~ThreadPool: stopped_.store(true), without mutex_
DtorStore ==
    /\ dtor = "none"
    /\ stopped_' = TRUE
    /\ dtor' = "stored"
    /\ ran' = [ran EXCEPT !.queuedAtStop = Range(pool_tasks_)]
    /\ UNCHANGED <<pool_tasks_, pool_workers_, notified, item>>
    /\ UNCHANGED <<vars, qvars, evars, bvars, fvars, mvars, gvars, lvars>>

\* ~ThreadPool: cv_.notify_all() reaches the workers blocked at this moment
DtorNotify ==
    /\ dtor = "stored"
    /\ notified' = notified \cup Blocked
    /\ dtor' = "joining"
    /\ UNCHANGED <<stopped_, pool_tasks_, pool_workers_, item, ran>>
    /\ UNCHANGED <<vars, qvars, evars, bvars, fvars, mvars, gvars, lvars>>

\* ~ThreadPool: every join has returned
DtorJoined ==
    /\ dtor = "joining"
    /\ \A w \in PoolWorkers : pool_workers_[w].pc = "exited"
    /\ dtor' = "returned"
    /\ UNCHANGED <<stopped_, pool_tasks_, pool_workers_, notified, item, ran>>
    /\ UNCHANGED <<vars, qvars, evars, bvars, fvars, mvars, gvars, lvars>>

NextPool ==
    \/ \E i \in Items, throws \in BOOLEAN : submit(i, throws)
    \/ \E w \in PoolWorkers : WorkerCheck(w) \/ Park(w) \/ Unpark(w) \/ Run(w)
    \/ DtorStore
    \/ DtorNotify
    \/ DtorJoined

InitPool ==
    /\ TaskInit /\ QueueInit(max_concurrent_tasks) /\ EngineInit /\ BucketInit(1)
    /\ PoolInit /\ CallInit /\ MetaFileInit /\ MonitorInit /\ LockInit

SpecPool == InitPool /\ [][NextPool]_<<vars, qvars, cvars>>

Accepted == {i \in Items : item[i].state = "accepted"}

\* C26: every item accepted by submit() is executed exactly once, the items
\* still queued when the destructor starts included: no item runs twice, none
\* runs unless accepted, and when the destructor returns every accepted item
\* has run once and every worker has exited.
C26_AcceptedItemsRunOnce ==
    /\ \A i \in Items : item[i].runs <= 1
    /\ \A i \in Items \ Accepted : item[i].runs = 0
    /\ dtor = "returned" =>
         /\ \A i \in Accepted : item[i].runs = 1
         /\ \A w \in PoolWorkers : pool_workers_[w].pc = "exited"

\* C26 witness: the destructor has returned and items were queued when it
\* started
C26_QueuedItemsRanBeforeReturn ==
    /\ dtor = "returned"
    /\ ran.queuedAtStop # {}

\* C27: a failing item delivers its failure through its future, and the
\* worker that ran it goes on serving: a worker leaves its loop only when the
\* pool is stopped.
C27_FailingItemKeepsWorker ==
    [][\A w \in PoolWorkers :
         /\ (pool_workers_[w].pc = "running" /\ pool_workers_'[w].pc # "running"
             /\ item[pool_workers_[w].task].throws
               => /\ item'[pool_workers_[w].task].future = "exception"
                  /\ pool_workers_'[w].pc = "ready")
         /\ (pool_workers_'[w].pc = "exited" => stopped_')
      ]_<<vars, qvars, cvars>>

\* C27 witness: a worker ran a failing item and then ran another item
C27_WorkerServedAfterFailure ==
    \E k, l \in 1..Len(ran.order) :
        /\ k < l
        /\ ran.order[k][1] = ran.order[l][1]
        /\ item[ran.order[k][2]].throws
        /\ item[ran.order[k][2]].future = "exception"



\* C28: every change of the task's state to Downloading, Paused, Completed,
\* Failed or Cancelled invokes the state-change callback exactly once, with
\* the new state.
C28_EveryChangeReportedOnce ==
    [][state_' # state_
       /\ (state_' \in {"Downloading", "Paused", "Completed", "Failed", "Cancelled"})
         => /\ hist'.callbacks = hist.callbacks + 1
            /\ hist'.reported = state_']_vars

\* C29: a task in Failed has a non-empty error_message, a task in Completed
\* or Cancelled an empty one.
C29_ErrorMessageMatchesState ==
    /\ state_ = "Failed" => error_message_ # ""
    /\ (state_ \in {"Completed", "Cancelled"}) => error_message_ = ""

\* C30: a Completed task whose completion routine has finished has no
\* metadata record.
C30_NoMetaOnceCompleted ==
    state_ = "Completed" => metas[file_path_] = NoMeta



(***************************************************************************)
(* TaskQueue's list operations: moveUp, moveDown and removeTask called on  *)
(* the queues that addDownload and recoverTasks build.                     *)
(***************************************************************************)
MaxMoves == 3

\* The ids a caller may pass: those of the tasks and one that no task has
Ids == 0..(MaxTasks + 1)

\* std::iter_swap of the elements at positions i and j
iter_swap(q, i, j) ==
    [k \in 1..Len(q) |-> IF k = i THEN q[j] ELSE IF k = j THEN q[i] ELSE q[k]]

\* The call and its result as the caller sees them, with the length of the
\* queue it was made on and its number among the calls
Called(op, id, result) ==
    /\ arg' = [op |-> op, id |-> id, size |-> Len(tasks_), n |-> arg.n + 1]
    /\ returned' = result
    /\ qcalls' = qcalls + 1

\* moveUp that exchanges the task with the one after it
moveUpSwapsForward(task_id) ==
    /\ qcalls < MaxMoves
    /\ LET it == FindById(tasks_, task, task_id)
       IN  IF it = 0 \/ it = 1
           THEN /\ Called("moveUp", task_id, FALSE)
                /\ UNCHANGED tasks_
           ELSE /\ Called("moveUp", task_id, TRUE)
                /\ tasks_' = iter_swap(tasks_, it, IF it < Len(tasks_) THEN it + 1 ELSE 1)
    /\ UNCHANGED <<active_count_, max_concurrent_, tasks_by_id_, next_task_id_,
                   task, qjobs, pending, qfails>>
    /\ Track
    /\ UNCHANGED <<vars, evars, bvars, pvars, mvars, gvars, lvars>>

\* TaskQueue::moveUp
moveUp(task_id) ==
    /\ qcalls < MaxMoves
    /\ LET it == FindById(tasks_, task, task_id)
       IN  IF it = 0 \/ it = 1
           THEN /\ Called("moveUp", task_id, FALSE)
                /\ UNCHANGED tasks_
           ELSE /\ Called("moveUp", task_id, TRUE)
                /\ tasks_' = iter_swap(tasks_, it, it - 1)
    /\ UNCHANGED <<active_count_, max_concurrent_, tasks_by_id_, next_task_id_,
                   task, qjobs, pending, qfails>>
    /\ Track
    /\ UNCHANGED <<vars, evars, bvars, pvars, mvars, gvars, lvars>>

\* TaskQueue::moveDown
moveDown(task_id) ==
    /\ qcalls < MaxMoves
    /\ LET it == FindById(tasks_, task, task_id)
       IN  IF it = 0 \/ it + 1 = Len(tasks_) + 1
           THEN /\ Called("moveDown", task_id, FALSE)
                /\ UNCHANGED tasks_
           ELSE /\ Called("moveDown", task_id, TRUE)
                /\ tasks_' = iter_swap(tasks_, it, it + 1)
    /\ UNCHANGED <<active_count_, max_concurrent_, tasks_by_id_, next_task_id_,
                   task, qjobs, pending, qfails>>
    /\ Track
    /\ UNCHANGED <<vars, evars, bvars, pvars, mvars, gvars, lvars>>

\* removeTask that erases the last task of the queue
queue_removeLast(task_id) ==
    /\ qcalls < MaxMoves
    /\ LET it == FindById(tasks_, task, task_id)
       IN  IF it = 0
           THEN /\ Called("removeTask", task_id, FALSE)
                /\ UNCHANGED <<tasks_, task, active_count_, qjobs>>
           ELSE LET h == tasks_[Len(tasks_)]
                    ac == IF task[h].state = "Downloading"
                          THEN active_count_ - 1 ELSE active_count_
                    q == Drop(tasks_, Len(tasks_))
                    r == tryStartNext(q, task, ac, max_concurrent_, qjobs)
                IN  /\ Called("removeTask", task_id, TRUE)
                    /\ tasks_' = q
                    /\ task' = [r.task EXCEPT ![h].state = "Cancelled"]
                    /\ active_count_' = r.active
                    /\ qjobs' = r.jobs
    /\ UNCHANGED <<max_concurrent_, tasks_by_id_, next_task_id_, pending, qfails>>
    /\ Track
    /\ UNCHANGED <<vars, evars, bvars, pvars, mvars, gvars, lvars>>

\* TaskQueue::removeTask: find by getId(); count down if Downloading; erase;
\* tryStartNext; Task::cancel outside the lock
queue_removeTask(task_id) ==
    /\ qcalls < MaxMoves
    /\ LET it == FindById(tasks_, task, task_id)
       IN  IF it = 0
           THEN /\ Called("removeTask", task_id, FALSE)
                /\ UNCHANGED <<tasks_, task, active_count_, qjobs>>
           ELSE LET h == tasks_[it]
                    ac == IF task[h].state = "Downloading"
                          THEN active_count_ - 1 ELSE active_count_
                    q == Drop(tasks_, it)
                    r == tryStartNext(q, task, ac, max_concurrent_, qjobs)
                IN  /\ Called("removeTask", task_id, TRUE)
                    /\ tasks_' = q
                    /\ task' = [r.task EXCEPT ![h].state = "Cancelled"]
                    /\ active_count_' = r.active
                    /\ qjobs' = r.jobs
    /\ UNCHANGED <<max_concurrent_, tasks_by_id_, next_task_id_, pending, qfails>>
    /\ Track
    /\ UNCHANGED <<vars, evars, bvars, pvars, mvars, gvars, lvars>>

NextOrder ==
    \/ addDownload
    \/ recoverTasks
    \/ cancelTask
    \/ \E id \in Ids : moveUp(id) \/ moveDown(id) \/ queue_removeTask(id)

SpecOrder == InitQ /\ [][NextOrder]_<<vars, qvars, cvars>>

\* The step is a call of op with this id
IsCall(op, id) == arg'.n = arg.n + 1 /\ arg'.op = op /\ arg'.id = id

\* Position of the first task of the queue whose id is id, 0 if there is none
PositionOf(id) ==
    IF \E i \in 1..Len(tasks_) : task[tasks_[i]].id = id
    THEN CHOOSE i \in 1..Len(tasks_) :
            /\ task[tasks_[i]].id = id
            /\ \A k \in 1..Len(tasks_) : task[tasks_[k]].id = id => i <= k
    ELSE 0

\* q is p with the elements at positions i and j exchanged, the rest in place
Exchanged(p, q, i, j) ==
    /\ Len(q) = Len(p)
    /\ q[i] = p[j] /\ q[j] = p[i]
    /\ \A k \in 1..Len(p) : k \notin {i, j} => q[k] = p[k]

\* C31: moveUp(id) exchanges the task with its predecessor and moveDown(id)
\* with its successor, every other position unchanged, and returns true; when
\* the task is first (moveUp), last (moveDown) or not in the queue the call
\* returns false and the order is unchanged.
C31_MoveSwapsWithNeighbour ==
    [][\A id \in Ids :
         /\ IsCall("moveUp", id) =>
              IF PositionOf(id) > 1
              THEN /\ returned' = TRUE
                   /\ Exchanged(tasks_, tasks_', PositionOf(id), PositionOf(id) - 1)
              ELSE returned' = FALSE /\ tasks_' = tasks_
         /\ IsCall("moveDown", id) =>
              IF PositionOf(id) > 0 /\ PositionOf(id) < Len(tasks_)
              THEN /\ returned' = TRUE
                   /\ Exchanged(tasks_, tasks_', PositionOf(id), PositionOf(id) + 1)
              ELSE returned' = FALSE /\ tasks_' = tasks_
      ]_<<vars, qvars, cvars>>

\* C31 witness: the middle one of three tasks was moved up, in the only
\* move made
C31_MiddleTaskMovedUp ==
    /\ arg.op = "moveUp" /\ returned = TRUE
    /\ arg.size = MaxTasks /\ Len(tasks_) = MaxTasks
    /\ qcalls = 2 /\ task[1].state = "Cancelled"
    /\ tasks_ = <<2, 1, 3>>

\* C32: removeTask(id) returns true and deletes exactly the first task with
\* that id, the others keeping their relative order; when no task has that id
\* it returns false and leaves the queue, active_count_ and every task alone.
C32_RemoveDeletesExactlyThatTask ==
    [][\A id \in Ids :
         IsCall("removeTask", id) =>
            IF PositionOf(id) > 0
            THEN /\ returned' = TRUE
                 /\ Len(tasks_') = Len(tasks_) - 1
                 /\ \A k \in 1..Len(tasks_') :
                       tasks_'[k] = IF k < PositionOf(id) THEN tasks_[k]
                                                          ELSE tasks_[k + 1]
            ELSE /\ returned' = FALSE
                 /\ UNCHANGED <<tasks_, active_count_, task>>
      ]_<<vars, qvars, cvars>>

\* C32 witness: the middle one of three tasks was removed, in the only call
\* made on the queue's order
C32_MiddleTaskRemoved ==
    /\ arg.op = "removeTask" /\ returned = TRUE
    /\ arg.size = MaxTasks
    /\ qcalls = 2 /\ task[1].state = "Cancelled"
    /\ tasks_ = <<1, 3>>



(***************************************************************************)
(* splitBlocks as a function of its three arguments, the rejected ones     *)
(* included.                                                               *)
(***************************************************************************)
MaxNumBlocks == 32

\* The arguments tried: sizes around 0, the sizes of the examples and sizes
\* around the small-file limit; block counts around both ends of the range
SplitSizes == {-1, 0, 1, 3, 100, 103, SmallFileLimit - 1, SmallFileLimit,
               SmallFileLimit + 1, SmallFileLimit + 3}

SplitCounts == {0, 1, 2, 3, 4, MaxNumBlocks, MaxNumBlocks + 1}

\* What the caller of splitBlocks gets: the blocks, or std::invalid_argument
splitBlocksOrThrow(fsize, num_blocks, supports_range) ==
    IF fsize <= 0 \/ num_blocks < 1 \/ num_blocks > MaxNumBlocks
    THEN [error |-> "InvalidArgument", blocks |-> <<>>]
    ELSE [error |-> "", blocks |-> splitBlocks(fsize, num_blocks, supports_range)]

InitSplit ==
    /\ TaskInit /\ QueueInit(max_concurrent_tasks)
    /\ EngineInit /\ BucketInit(1) /\ PoolInit /\ MetaFileInit /\ MonitorInit /\ LockInit
    /\ \E fsize \in SplitSizes, num_blocks \in SplitCounts, supports_range \in BOOLEAN :
         arg = [op |-> "splitBlocks", file_size |-> fsize, num_blocks |-> num_blocks,
                supports_range |-> supports_range, n |-> 0]
    /\ returned = [error |-> "", blocks |-> <<>>]

\* The call
split ==
    /\ arg.op = "splitBlocks" /\ arg.n = 0
    /\ returned' = splitBlocksOrThrow(arg.file_size, arg.num_blocks, arg.supports_range)
    /\ arg' = [arg EXCEPT !.n = 1]
    /\ UNCHANGED <<vars, qvars, evars, bvars, pvars, mvars, gvars, lvars>>

NextSplit == split

SpecSplit == InitSplit /\ [][NextSplit]_<<vars, qvars, cvars>>

SplitValid ==
    arg.file_size >= 1 /\ arg.num_blocks >= 1 /\ arg.num_blocks <= 32

BlockLen(b) == b.range_end - b.range_start + 1

\* C33: for file_size >= 1 and 1 <= desired_blocks <= 32, with or without
\* range support, the k blocks returned have ids 0..k-1, start at 0, are
\* contiguous, end at file_size - 1, 1 <= k <= min(desired_blocks, file_size),
\* downloaded = 0 and completed = false; other arguments are rejected with
\* InvalidArgument.
C33_SplitTilesTheFile ==
    arg.op = "splitBlocks" /\ arg.n = 1 =>
        IF SplitValid
        THEN LET bs == returned.blocks
                 k == Len(bs)
             IN  /\ returned.error = ""
                 /\ 1 <= k /\ k <= arg.num_blocks /\ k <= arg.file_size
                 /\ bs[1].range_start = 0
                 /\ bs[k].range_end = arg.file_size - 1
                 /\ \A i \in 1..k :
                       /\ bs[i].block_id = i - 1
                       /\ bs[i].range_start <= bs[i].range_end
                       /\ bs[i].downloaded = 0
                       /\ bs[i].completed = FALSE
                       /\ i < k => bs[i + 1].range_start = bs[i].range_end + 1
        ELSE returned.error = "InvalidArgument"

\* C33 witness: a file above the small-file limit, not a multiple of the
\* block count, was split into several blocks
C33_LargeFileSplitWithRemainder ==
    /\ arg.op = "splitBlocks" /\ arg.n = 1
    /\ arg.file_size = SmallFileLimit + 3 /\ arg.num_blocks = 4 /\ arg.supports_range
    /\ Len(returned.blocks) = 4

\* C34: with range support split(file_size, N, true) returns exactly
\* min(N, file_size) blocks, each of floor(file_size / count) bytes except the
\* last, which also takes the remainder (100 bytes with N = 4: four blocks of
\* 25).
C34_RangeSplitIsEven ==
    arg.op = "splitBlocks" /\ arg.n = 1 /\ SplitValid /\ arg.supports_range =>
        LET bs == returned.blocks
            count == Min(arg.num_blocks, arg.file_size)
        IN  /\ Len(bs) = count
            /\ \A i \in 1..Len(bs) :
                  BlockLen(bs[i]) =
                     IF i < count
                     THEN arg.file_size \div count
                     ELSE arg.file_size - (count - 1) * (arg.file_size \div count)

\* ---------------------------------------------------------------------------
\* MetaFile: a task record written as JSON text and read back
\* ---------------------------------------------------------------------------

\* Longest string of a record
MaxStringLen == 2

\* The bytes a std::string of a record is made of: a plain character, the two
\* characters JSON escapes, the two bytes of one two-byte UTF-8 character, and
\* a byte that occurs in no UTF-8 text (what urlDecode makes of "%FF")
Bytes == {"a", "quote", "backslash", "lead", "cont", "0xFF"}

Strings == UNION {[1..n -> Bytes] : n \in 0..MaxStringLen}

\* Whether the bytes of s from position i on are UTF-8 text
RECURSIVE IsUtf8From(_, _)
IsUtf8From(s, i) ==
    IF i > Len(s) THEN TRUE
    ELSE IF s[i] \in {"a", "quote", "backslash"} THEN IsUtf8From(s, i + 1)
    ELSE IF s[i] = "lead" /\ i < Len(s) /\ s[i + 1] = "cont" THEN IsUtf8From(s, i + 2)
    ELSE FALSE

\* The text of a JSON string: quote and backslash are written with a backslash
\* before them, every other byte as it is
RECURSIVE escape(_)
escape(s) ==
    IF s = <<>> THEN <<>>
    ELSE IF Head(s) \in {"quote", "backslash"}
         THEN <<"backslash", Head(s)>> \o escape(Tail(s))
         ELSE <<Head(s)>> \o escape(Tail(s))

\* The string a JSON string's text stands for
RECURSIVE unescape(_)
unescape(t) ==
    IF t = <<>> THEN <<>>
    ELSE IF Head(t) = "backslash" /\ Len(t) >= 2
         THEN <<t[2]>> \o unescape(Tail(Tail(t)))
         ELSE <<Head(t)>> \o unescape(Tail(t))

blockInfoToJson(b) ==
    [block_id |-> b.block_id, range_start |-> b.range_start, range_end |-> b.range_end,
     downloaded |-> b.downloaded, completed |-> b.completed]

blockInfoFromJson(j) ==
    [block_id |-> j.block_id, range_start |-> j.range_start, range_end |-> j.range_end,
     downloaded |-> j.downloaded, completed |-> j.completed]

\* The JSON value of a record: its strings as they are, its numbers, its blocks
taskMetaToJson(meta) ==
    [url |-> meta.url, file_path |-> meta.file_path, file_name |-> meta.file_name,
     file_size |-> meta.file_size, etag |-> meta.etag,
     last_modified |-> meta.last_modified, max_blocks |-> meta.max_blocks,
     blocks |-> [i \in 1..Len(meta.blocks) |-> blockInfoToJson(meta.blocks[i])]]

taskMetaFromJson(j) ==
    [url |-> j.url, file_path |-> j.file_path, file_name |-> j.file_name,
     file_size |-> j.file_size, etag |-> j.etag,
     last_modified |-> j.last_modified, max_blocks |-> j.max_blocks,
     blocks |-> [i \in 1..Len(j.blocks) |-> blockInfoFromJson(j.blocks[i])]]

\* The strings of a JSON value of a record
StringsOf(j) == {j.url, j.file_path, j.file_name, j.etag, j.last_modified}

\* dump: the text of a JSON value, which is refused (an exception) when one of
\* its strings is no UTF-8 text
dump(j) ==
    IF \E s \in StringsOf(j) : ~IsUtf8From(s, 1)
    THEN [error |-> "type_error", text |-> <<>>]
    ELSE [error |-> "",
          text |-> [j EXCEPT !.url = escape(@), !.file_path = escape(@),
                             !.file_name = escape(@), !.etag = escape(@),
                             !.last_modified = escape(@)]]

\* parse: the JSON value of a text; an empty file is no JSON text
parse(text) ==
    IF text = <<>>
    THEN [error |-> "parse_error"]
    ELSE [error |-> "",
          value |-> [text EXCEPT !.url = unescape(@), !.file_path = unescape(@),
                                 !.file_name = unescape(@), !.etag = unescape(@),
                                 !.last_modified = unescape(@)]]

\* The block lists of the records tried
MetaBlocks ==
    {<<>>,
     splitBlocks(SmallFileLimit + 1, 2, TRUE),
     [splitBlocks(SmallFileLimit + 1, 2, TRUE) EXCEPT ![1].downloaded = 1,
                                                      ![2].completed = TRUE]}

\* The records tried
TaskMetas ==
    [url : Strings,
     file_path : {<<"a">>, <<"backslash", "a">>},
     file_name : {<<"a">>, <<"a", "0xFF">>},
     file_size : {-1, SmallFileLimit + 1},
     etag : {<<>>, <<"quote", "a">>},
     last_modified : {<<>>, <<"lead", "cont">>},
     max_blocks : {1, MaxNumBlocks},
     blocks : MetaBlocks]

\* MetaFile::save: the stream truncates the file, then the text is written
\* unless making it threw
save(meta) ==
    /\ arg.op = "none" /\ arg.n = 0
    /\ LET d == dump(taskMetaToJson(meta)) IN
         /\ meta_file' = [exists |-> TRUE, text |-> d.text]
         /\ returned' = (d.error = "")
    /\ arg' = [op |-> "save", meta |-> meta, n |-> 1]
    /\ UNCHANGED <<vars, qvars, evars, bvars, pvars, gvars, lvars>>

\* MetaFile::load: nothing when the file cannot be opened or parsed
load ==
    /\ arg.op = "save" /\ arg.n = 1
    /\ returned' = IF ~meta_file.exists THEN [has_value |-> FALSE]
                   ELSE LET j == parse(meta_file.text) IN
                        IF j.error # "" THEN [has_value |-> FALSE]
                        ELSE [has_value |-> TRUE, value |-> taskMetaFromJson(j.value)]
    /\ arg' = [arg EXCEPT !.op = "load", !.n = 2]
    /\ UNCHANGED <<vars, qvars, evars, bvars, pvars, mvars, gvars, lvars>>

NextMeta == (\E meta \in TaskMetas : save(meta)) \/ load

InitMeta == TaskInit /\ QueueInit(max_concurrent_tasks) /\ Idle

SpecMeta == InitMeta /\ [][NextMeta]_<<vars, qvars, cvars>>

\* C35: save followed by load on the same path returns a record equal to the
\* saved one field for field, whatever the record, the empty block list included
C35_LoadReturnsSavedRecord ==
    arg.op = "load" =>
        /\ returned.has_value
        /\ returned.value = arg.meta

\* The records that are written and read back: those whose strings are all UTF-8 text
Utf8RecordsRoundTrip ==
    (arg.op = "load" /\ \A s \in StringsOf(arg.meta) : IsUtf8From(s, 1)) =>
        /\ returned.has_value
        /\ returned.value = arg.meta

\* ---------------------------------------------------------------------------
\* ProgressMonitor: addBytes from several threads, snapshot
\* ---------------------------------------------------------------------------

MaxDelta == 2
MaxAddCalls == 4
MaxSnapshots == 3

\* The deltas passed to addBytes
Deltas == (0 - 1)..MaxDelta

\* addBytes, up to the lock: a delta that is not positive returns at once
monitor_addBytes(t, bytes) ==
    /\ caller[t].pc = "idle"
    /\ SumSeq([u \in MonitorThreads |-> caller[u].calls]) < MaxAddCalls
    /\ caller' = [caller EXCEPT ![t] = [pc |-> IF bytes <= 0 THEN "idle" ELSE "lock",
                                        bytes |-> bytes, local |-> 0, calls |-> @.calls + 1]]
    /\ UNCHANGED <<downloaded_bytes_, monitor_mutex, passed, snapshots>>
    /\ UNCHANGED <<vars, qvars, evars, bvars, pvars, fvars, mvars, lvars>>

\* A lock that waits for nobody
lockWithoutWaiting(t) ==
    /\ caller[t].pc = "lock"
    /\ monitor_mutex' = t
    /\ caller' = [caller EXCEPT ![t].pc = "read"]
    /\ UNCHANGED <<downloaded_bytes_, passed, snapshots>>
    /\ UNCHANGED <<vars, qvars, evars, bvars, pvars, fvars, mvars, lvars>>

\* std::lock_guard lock(mutex_) in addBytes
lock(t) ==
    /\ caller[t].pc = "lock"
    /\ monitor_mutex = 0
    /\ monitor_mutex' = t
    /\ caller' = [caller EXCEPT ![t].pc = "read"]
    /\ UNCHANGED <<downloaded_bytes_, passed, snapshots>>
    /\ UNCHANGED <<vars, qvars, evars, bvars, pvars, fvars, mvars, lvars>>

\* downloaded_bytes_ += bytes, first half: the counter is read
read(t) ==
    /\ caller[t].pc = "read"
    /\ caller' = [caller EXCEPT ![t].pc = "write", ![t].local = downloaded_bytes_]
    /\ UNCHANGED <<downloaded_bytes_, monitor_mutex, passed, snapshots>>
    /\ UNCHANGED <<vars, qvars, evars, bvars, pvars, fvars, mvars, lvars>>

\* downloaded_bytes_ += bytes, second half: the sum is stored; the sample is
\* pushed, the lock released and the call returns
write(t) ==
    /\ caller[t].pc = "write"
    /\ passed' = passed + caller[t].bytes
    /\ downloaded_bytes_' = caller[t].local + caller[t].bytes
    /\ monitor_mutex' = IF monitor_mutex = t THEN 0 ELSE monitor_mutex
    /\ caller' = [caller EXCEPT ![t].pc = "idle", ![t].bytes = 0, ![t].local = 0]
    /\ UNCHANGED <<snapshots>>
    /\ UNCHANGED <<vars, qvars, evars, bvars, pvars, fvars, mvars, lvars>>

\* snapshot(): the counter read under the lock
snapshot ==
    /\ monitor_mutex = 0
    /\ snapshots.calls < MaxSnapshots
    /\ snapshots' = [calls |-> snapshots.calls + 1, last |-> downloaded_bytes_, previous |-> snapshots.last]
    /\ UNCHANGED <<downloaded_bytes_, monitor_mutex, caller, passed>>
    /\ UNCHANGED <<vars, qvars, evars, bvars, pvars, fvars, mvars, lvars>>

NextMonitor ==
    \/ \E t \in MonitorThreads : (\E bytes \in Deltas : monitor_addBytes(t, bytes)) \/ lock(t) \/ read(t) \/ write(t)
    \/ snapshot

InitMonitor == TaskInit /\ QueueInit(max_concurrent_tasks) /\ Idle

SpecMonitor == InitMonitor /\ [][NextMonitor]_<<vars, qvars, cvars>>

\* C36: whatever addBytes calls were made, from several threads at once too,
\* a snapshot's downloaded_bytes is the sum of the positive deltas passed (a
\* zero or negative delta adds nothing), and no snapshot reports less than the
\* snapshot before it
C36_SnapshotIsSumOfPositiveDeltas ==
    [][/\ snapshots'.calls = snapshots.calls + 1 =>
            /\ snapshots'.last = passed
            /\ snapshots'.last >= snapshots.last
       /\ \A t \in MonitorThreads :
            (caller'[t].calls = caller[t].calls + 1 /\ caller'[t].bytes <= 0) =>
                /\ caller'[t].pc = "idle"
                /\ downloaded_bytes_' = downloaded_bytes_ /\ passed' = passed
      ]_<<vars, qvars, cvars>>

\* Both threads called addBytes twice, and a snapshot reported the whole sum
\* after an earlier one had reported part of it
C36_ConcurrentAddsCounted ==
    /\ snapshots.calls >= 2 /\ snapshots.last = 2 * MaxDelta /\ snapshots.previous = MaxDelta
    /\ \A t \in MonitorThreads : caller[t].calls = 2 /\ caller[t].pc = "idle"

\* ---------------------------------------------------------------------------
\* The completion routine of a run
\* ---------------------------------------------------------------------------

\* Block::execute after HttpEngine::download has returned, in its two steps.
\* First: info_.completed = true, unless paused_
StoreCompleted ==
  \E w \in 1..Len(workers) :
    /\ workers[w].pc = "recv"
    /\ ~Blk(w).cancelled
    /\ Need(w) > 0
    /\ workers[w].sent = Need(w)
    /\ IF Blk(w).paused
       THEN Leave(w, heap)
       ELSE /\ heap' = [heap EXCEPT ![Obj(w)].info.completed = TRUE]
            /\ workers' = [workers EXCEPT ![w].pc = "notify"]
    /\ UNCHANGED <<state_, auto_retry_count_, error_message_, file_size_, etag_, last_modified_,
                   file_path_, blocks_, progress_, jobs, files, metas,
                   calls, netFails, etagChanges, limit, hist>>
    /\ UNCHANGED <<qvars, cvars>>

\* Second: the zero-delta progress event, Task::onBlockProgress up to its
\* decision to run checkCompletion
FinalProgress ==
  \E w \in 1..Len(workers) :
    /\ workers[w].pc = "notify"
    /\ IF RunsCompletion(heap)
       THEN /\ workers' = [workers EXCEPT ![w] = [@ EXCEPT
                    !.pc = "complete", !.final = TRUE]]
            /\ UNCHANGED heap
       ELSE Leave(w, heap)
    /\ UNCHANGED <<state_, auto_retry_count_, error_message_, file_size_, etag_, last_modified_,
                   file_path_, blocks_, progress_, jobs, files, metas,
                   calls, netFails, etagChanges, limit, hist>>
    /\ UNCHANGED <<qvars, cvars>>

\* One run of a new task that nobody pauses, resumes or cancels and that no
\* failure disturbs
InitCompletion ==
    /\ NewTask
    /\ \E e, l \in BOOLEAN :
         limit = [events |-> 0, calls |-> 0, net |-> 0, etag |-> 0,
                  etagHeader |-> e, lastModifiedHeader |-> l]
    /\ QueueInit(max_concurrent_tasks)
    /\ Idle

NextCompletion ==
    \/ start
    \/ FetchInfoOk
    \/ allocateFile
    \/ createBlocks
    \/ Execute
    \/ RecvData
    \/ Write
    \/ StoreCompleted
    \/ FinalProgress
    \/ checkCompletion

SpecCompletion == InitCompletion /\ [][NextCompletion]_vars

\* C37: in each run of a task the completion routine (size check, transition
\* to Completed or Failed, callback, file move, metadata deletion) is executed
\* at most once, also when blocks deliver their progress events concurrently
C37_CompletionRunsOncePerRun == hist.completions <= 1

\* ---------------------------------------------------------------------------
\* resume() of a task that has nothing left to download
\* ---------------------------------------------------------------------------

\* The record that resume() loads has no block left to download
NothingLeft(m) == m.present /\ \A i \in 1..Len(m.blocks) : m.blocks[i].completed

\* C38: resume() of a Paused task whose persisted blocks are all completed, or
\* whose persisted block list is empty, goes on to Completed or Failed: it
\* never rests in Downloading with no job and no block worker left to move it
C38_ResumedTaskWithNothingLeftEnds ==
    ~(/\ hist.resumedFrom = "Paused"
      /\ state_ = "Downloading"
      /\ Quiescent
      /\ blocks_ = <<>>
      /\ NothingLeft(metas[file_path_]))

\* ---------------------------------------------------------------------------
\* The persisted counters and the bytes in the file
\* ---------------------------------------------------------------------------

\* C39: in every record on disk, each block's downloaded is at most the number
\* of bytes written without a gap from its range_start in the destination
\* file, so that a resume from the record skips no byte that was not written
C39_RecordedBytesAreWritten ==
    \A p \in Paths :
        metas[p].present =>
            \A i \in 1..Len(metas[p].blocks) :
                LET b == metas[p].blocks[i]
                IN b.downloaded > 0 =>
                      /\ files[p].exists
                      /\ CoveredFrom(files[p].written, b.range_start,
                                     b.range_start + b.downloaded - 1)

\* ---------------------------------------------------------------------------
\* The mutexes taken by the manager's calls and by the pool's work items
\* ---------------------------------------------------------------------------

Lock(m) == [op |-> "lock", m |-> m]
Unlock(m) == [op |-> "unlock", m |-> m]

ManagerMutex == <<"Manager", 0>>
QueueMutex == <<"Queue", 0>>
PoolMutex == <<"Pool", 0>>
TaskMutex(h) == <<"Task", h>>
ProgressMutex(h) == <<"Progress", h>>

\* The operations of f(h) for every task h in turn
RECURSIVE ForEachTask(_, _)
ForEachTask(f(_), h) ==
    IF h \notin LockTasks THEN <<>> ELSE f(h) \o ForEachTask(f, h + 1)

\* ProgressMonitor::snapshot and ProgressMonitor::addBytes
snapshotLocks(h) == <<Lock(ProgressMutex(h)), Unlock(ProgressMutex(h))>>
addBytesLocks(h) == <<Lock(ProgressMutex(h)), Unlock(ProgressMutex(h))>>

\* Task::getInfo: atomics and the monitor's snapshot
getInfoLocks(h) == snapshotLocks(h)

\* ThreadPool::submit
submitLocks == <<Lock(PoolMutex), Unlock(PoolMutex)>>

\* Task::start: CAS, setState(Downloading) whose callback the manager ignores,
\* submit
startLocks(h) == submitLocks

\* TaskQueue::tryStartNext, which its callers run with the queue's mutex held:
\* getInfo of the tasks, start() of those in started
tryStartNextLocks(started) ==
    LET each(h) == getInfoLocks(h) \o (IF h \in started THEN startLocks(h) ELSE <<>>)
    IN ForEachTask(each, 1)

\* TaskQueue::addTask
addTaskLocks(started) ==
    <<Lock(QueueMutex)>> \o tryStartNextLocks(started) \o <<Unlock(QueueMutex)>>

\* TaskQueue::onTaskFinished, reached from DownloadManager::onTaskStateChange
onTaskFinishedLocks(started) ==
    <<Lock(QueueMutex)>> \o tryStartNextLocks(started) \o <<Unlock(QueueMutex)>>

\* Task::setState: the callback runs on the calling thread, and reaches the
\* queue when the new state is Completed, Failed or Cancelled
setStateLocks(calls_back, started) ==
    IF calls_back THEN onTaskFinishedLocks(started) ELSE <<>>

\* DownloadManager::findTask
findTaskLocks == <<Lock(ManagerMutex), Unlock(ManagerMutex)>>

\* Task::saveMeta
saveMetaLocks(h) == <<Lock(TaskMutex(h)), Unlock(TaskMutex(h))>>

\* Task::pause: the blocks under mutex_, saveMeta, setState(Paused)
pauseLocks(h) == <<Lock(TaskMutex(h)), Unlock(TaskMutex(h))>> \o saveMetaLocks(h)

\* Task::cancel: the blocks under mutex_, setState(Cancelled) after the lock
\* was released; the callback runs if another thread changed state_ meanwhile
cancelLocks(h, calls_back, started) ==
    <<Lock(TaskMutex(h)), Unlock(TaskMutex(h))>> \o setStateLocks(calls_back, started)

\* A removal that cancels the task before it releases the queue's mutex
removeTaskCancelsUnderLock(h, calls_back, started) ==
    <<Lock(QueueMutex)>> \o getInfoLocks(h) \o tryStartNextLocks(started)
        \o cancelLocks(h, calls_back, started) \o <<Unlock(QueueMutex)>>

\* TaskQueue::removeTask: getInfo and tryStartNext under the queue's mutex,
\* cancel() outside it
removeTaskLocks(h, calls_back, started) ==
    <<Lock(QueueMutex)>> \o getInfoLocks(h) \o tryStartNextLocks(started)
        \o <<Unlock(QueueMutex)>> \o cancelLocks(h, calls_back, started)

\* The sets of tasks that one run of tryStartNext starts
Admitted == {{}, {2}}

\* The calls on DownloadManager
ManagerCalls ==
    LET all == ForEachTask(getInfoLocks, 1) IN
    \* addDownload: duplicate check, id, registration, addTask
    {<<Lock(ManagerMutex)>> \o all \o <<Unlock(ManagerMutex)>>
        \o findTaskLocks \o findTaskLocks \o addTaskLocks(started) : started \in Admitted}
    \* pauseTask, resumeTask, cancelTask
    \cup {findTaskLocks \o pauseLocks(h) : h \in LockTasks}
    \cup {findTaskLocks \o submitLocks}
    \cup {findTaskLocks \o cancelLocks(h, cb, started) :
            h \in LockTasks, cb \in BOOLEAN, started \in Admitted}
    \* removeTask: the queue's removal, then the manager's map
    \cup {removeTaskLocks(h, cb, started) \o findTaskLocks :
            h \in LockTasks, cb \in BOOLEAN, started \in Admitted}
    \* updateConfig -> TaskQueue::setMaxConcurrent
    \cup {addTaskLocks(started) : started \in Admitted}
    \* getAllTasks -> TaskQueue::getAllTaskInfo
    \cup {<<Lock(QueueMutex)>> \o all \o <<Unlock(QueueMutex)>>}

\* The work items of the pool
WorkItems ==
    \* the worker's loop taking an item from the pool's queue
    {submitLocks}
    \* the job of start(): createBlocks, saveMeta, submitBlocks
    \cup {saveMetaLocks(h) \o saveMetaLocks(h)
            \o <<Lock(TaskMutex(h))>> \o submitLocks \o <<Unlock(TaskMutex(h))>> : h \in LockTasks}
    \* the job of resume(): blocks and monitor rebuilt under mutex_, submitBlocks
    \cup {<<Lock(TaskMutex(h))>> \o addBytesLocks(h) \o <<Unlock(TaskMutex(h))>>
            \o <<Lock(TaskMutex(h))>> \o submitLocks \o <<Unlock(TaskMutex(h))>> : h \in LockTasks}
    \* a job that fails: setState(Failed)
    \cup {setStateLocks(TRUE, started) : started \in Admitted}
    \* Task::onBlockProgress, with or without checkCompletion at its end
    \cup {addBytesLocks(h) \o <<Lock(TaskMutex(h)), Unlock(TaskMutex(h))>>
            \o setStateLocks(done, started) :
            h \in LockTasks, done \in BOOLEAN, started \in Admitted}

\* A caller's thread enters a call on the manager
ManagerCall ==
  \E t \in CallerThreads, ops \in ManagerCalls :
    /\ program[t] = <<>>
    /\ program' = [program EXCEPT ![t] = ops]
    /\ UNCHANGED holder
    /\ UNCHANGED <<vars, qvars, evars, bvars, pvars, fvars, mvars, gvars>>

\* A pool worker begins a work item
WorkItem ==
  \E t \in WorkerThreads, ops \in WorkItems :
    /\ program[t] = <<>>
    /\ program' = [program EXCEPT ![t] = ops]
    /\ UNCHANGED holder
    /\ UNCHANGED <<vars, qvars, evars, bvars, pvars, fvars, mvars, gvars>>

\* std::lock_guard's constructor: the thread waits until the mutex is free
Locks ==
  \E t \in LockThreads :
    /\ program[t] # <<>>
    /\ Head(program[t]).op = "lock"
    /\ holder[Head(program[t]).m] = 0
    /\ holder' = [holder EXCEPT ![Head(program[t]).m] = t]
    /\ program' = [program EXCEPT ![t] = Tail(@)]
    /\ UNCHANGED <<vars, qvars, evars, bvars, pvars, fvars, mvars, gvars>>

\* std::lock_guard's destructor
Unlocks ==
  \E t \in LockThreads :
    /\ program[t] # <<>>
    /\ Head(program[t]).op = "unlock"
    /\ holder' = [holder EXCEPT ![Head(program[t]).m] = 0]
    /\ program' = [program EXCEPT ![t] = Tail(@)]
    /\ UNCHANGED <<vars, qvars, evars, bvars, pvars, fvars, mvars, gvars>>

NextLocks == ManagerCall \/ WorkItem \/ Locks \/ Unlocks

InitLocks == TaskInit /\ QueueInit(max_concurrent_tasks) /\ Idle

SpecLocks == InitLocks /\ [][NextLocks]_<<vars, qvars, cvars>>

\* Thread t waits for a mutex that thread u holds
WaitsFor(t, u) ==
    /\ program[t] # <<>>
    /\ Head(program[t]).op = "lock"
    /\ holder[Head(program[t]).m] = u

\* The threads that t waits for, directly or through others, in at most n steps
RECURSIVE WaitsOn(_, _)
WaitsOn(t, n) ==
    IF n = 0 THEN {}
    ELSE LET direct == {u \in LockThreads : WaitsFor(t, u)}
         IN direct \cup UNION {WaitsOn(u, n - 1) : u \in direct}

\* C40: whatever calls on the manager, admissions under the queue's mutex and
\* callbacks from worker threads interleave, no thread waits for a mutex held
\* by a thread that waits, directly or through others, for a mutex the first
\* one holds, nor for a mutex it holds itself
C40_NoThreadsWaitInACycle ==
    \A t \in LockThreads : t \notin WaitsOn(t, Cardinality(LockThreads))

\* A worker's callback waits for the queue's mutex, which a caller holds who
\* in turn waits for the pool's mutex held by the other caller
C40_ThreadsWaitInAChain ==
    \E a \in WorkerThreads, b, c \in CallerThreads :
        /\ b # c
        /\ WaitsFor(a, b) /\ Head(program[a]).m = QueueMutex
        /\ WaitsFor(b, c) /\ Head(program[b]).m = PoolMutex
====
